---- MODULE Spec2Model ----
(***************************************************************************)
(* Brewery discovery and tap-list acquisition pipeline of CraftBot-AI:     *)
(* the two-tier search cache (brewery_cache.py), the strategy chain of the *)
(* web scraper and the acquisition orchestrator (brewery_scraper.py).      *)
(*                                                                         *)
(* Optional values (Python None or a value) are sequences of length 0 or 1.*)
(* Time is counted in hours.                                               *)
(***************************************************************************)
EXTENDS Integers, Sequences, FiniteSets, TLC

\* ------------------------------------------------------------------ bounds
\* Last clock value the model explores.
MaxTime == 3
\* cache_ttl_hours the cache service is constructed with (a constructor
\* argument, default 24): kept short so that expiry happens within MaxTime.
cache_ttl_hours == 2
\* Largest number of breweries one discovery returns in the model, for
\* acquisitions called one after another and for overlapping ones.
MaxBreweries == 2
MaxBreweriesConcurrent == 1

\* --------------------------------------------------------- program constants
\* Number of entries of url_variations in _scrape_with_alternative_endpoints.
NumUrlVariations == 8

\* ------------------------------------------------------------------ values
None == << >>
Some(x) == << x >>

Procs == {"p1", "p2"}
\* (zipcode, radius_miles) pairs the callers ask for.
Keys == { <<"94556", 15>>, <<"94102", 15>> }
\* The keys each caller asks for: callers and keys being interchangeable,
\* the first caller is given one key, and the second the same or another.
Asks(p) == IF p = "p1" THEN { <<"94556", 15>> } ELSE Keys

Beer(n, s, a) == [name |-> n, style |-> s, abv |-> a]
\* Beer lists a fetched page can parse to (besides the empty list).
TapLists ==
    { << Beer("Beta Tested", "Czech-Style Pils", 51) >> }
\* The default list of the disabled _get_mock_tap_list.
MockTapList ==
    << Beer("House IPA", "American IPA", 62),
       Beer("Seasonal Lager", "German Lager", 46),
       Beer("Brewery Stout", "Dry Stout", 48) >>

\* What one HTTP fetch of a tap-list page can produce: a transport error
\* (timeout, TLS failure; an exception while parsing counts as one), a
\* non-200 status, or a page and the beers _parse_tap_list_from_html
\* makes of it.
Responses ==
    { [kind |-> "error", beers |-> << >>],
      [kind |-> "status", beers |-> << >>],
      [kind |-> "page", beers |-> << >>] }
    \cup { [kind |-> "page", beers |-> t] : t \in TapLists }

\* A Brewery object (the fields the pipeline reads or writes).
Brewery(n, w, b, u) == [name |-> n, website |-> w, beers |-> b, last_updated |-> u]
BreweryName(i) == << "brewery", i >>
Url(i) == << "https://site", i >>

\* --------------------------------------------------------------- cache code
\* _generate_cache_key: md5 of "zipcode:radius", one key per pair.
generate_cache_key(zipcode, radius_miles) == << zipcode, radius_miles >>

\* _serialize_breweries: the dictionary keeps name, website, beers (and the
\* other descriptive fields), not last_updated.
serialize_breweries(breweries) ==
    [i \in 1..Len(breweries) |->
        [name |-> breweries[i].name,
         website |-> breweries[i].website,
         beers |-> breweries[i].beers]]

\* _deserialize_breweries: fresh Brewery objects; last_updated is not restored.
deserialize_breweries(data) ==
    [i \in 1..Len(data) |-> Brewery(data[i].name, data[i].website, data[i].beers, None)]

\* Removing a key from the in-memory dictionary.
DictDel(d, k) == [x \in (DOMAIN d) \ {k} |-> d[x]]
\* Setting a key of the in-memory dictionary.
DictPut(d, k, v) == [x \in (DOMAIN d) \cup {k} |-> IF x = k THEN v ELSE d[x]]

\* A row of the brewery_search_cache table.
Row(id, results, exp) == [id |-> id, search_results |-> results, expires_at |-> exp]

\* (variant for C2: the entry still served at its expiry instant)
memory_entry_valid_inclusive(t, expires_at) == t <= expires_at

\* datetime.utcnow() < expires_at: the in-memory entry is still valid.
memory_entry_valid(t, expires_at) == t < expires_at

\* BrewerySearchCache.expires_at > datetime.utcnow(): the filter of the query.
row_valid(t, expires_at) == expires_at > t

\* get_cached_search(zipcode, radius) at time t; dbFails: the durable store
\* raises during the query.  Yields the new in-memory dictionary, the
\* returned value (None or Some(list)), which tiers were consulted, and
\* whether an exception leaves the call (never: the except clause returns
\* None).
get_cached_search(mem, rows, key, t, dbFails) ==
    LET inMem   == key \in DOMAIN mem
        fastHit == inMem /\ memory_entry_valid(t, mem[key].expires_at)
        mem1    == IF inMem /\ ~fastHit THEN DictDel(mem, key) ELSE mem
        found   == { r \in rows : r.id = key /\ row_valid(t, r.expires_at) }
    IN  IF fastHit
        THEN [mem |-> mem, result |-> Some(deserialize_breweries(mem[key].data)),
              tier |-> "fast", evicted |-> FALSE, durable_read |-> FALSE,
              raised |-> FALSE]
        ELSE IF dbFails
        THEN [mem |-> mem1, result |-> None,
              tier |-> "error", evicted |-> inMem, durable_read |-> TRUE,
              raised |-> FALSE]
        ELSE IF found # {}
        THEN LET r == CHOOSE r \in found : TRUE
             IN  [mem |-> DictPut(mem1, key,
                                  [data |-> r.search_results, expires_at |-> r.expires_at]),
                  result |-> Some(deserialize_breweries(r.search_results)),
                  tier |-> "durable", evicted |-> inMem, durable_read |-> TRUE,
                  raised |-> FALSE]
        ELSE [mem |-> mem1, result |-> None,
              tier |-> "miss", evicted |-> inMem, durable_read |-> TRUE,
              raised |-> FALSE]

\* (variant for C10: the add without the delete of the existing row)
ReplaceRow_without_delete(rows, key, data, exp) ==
    rows \cup { Row(key, data, exp) }

\* The rows of the table after the delete-then-add of cache_search_results.
ReplaceRow(rows, key, data, exp) ==
    { r \in rows : r.id # key } \cup { Row(key, data, exp) }

\* (variant for C8: a key that is already cached is left as it is)
cache_search_results_first_wins(mem, rows, key, t, breweries, dbFails) ==
    LET expires_at == t + cache_ttl_hours
        data       == serialize_breweries(breweries)
    IN  IF dbFails \/ key \in DOMAIN mem
        THEN [mem |-> mem, rows |-> rows, ok |-> ~dbFails, raised |-> FALSE]
        ELSE [mem |-> DictPut(mem, key, [data |-> data, expires_at |-> expires_at]),
              rows |-> ReplaceRow(rows, key, data, expires_at),
              ok |-> TRUE, raised |-> FALSE]

\* (variant for C11: the in-memory dictionary is set before the commit, so
\* that a failed commit leaves the new entry in the fast tier)
cache_search_results_memory_first(mem, rows, key, t, breweries, dbFails) ==
    LET expires_at == t + cache_ttl_hours
        data       == serialize_breweries(breweries)
        mem1       == DictPut(mem, key, [data |-> data, expires_at |-> expires_at])
    IN  IF dbFails
        THEN [mem |-> mem1, rows |-> rows, ok |-> FALSE, raised |-> FALSE]
        ELSE [mem |-> mem1, rows |-> ReplaceRow(rows, key, data, expires_at), ok |-> TRUE,
              raised |-> FALSE]

\* (variant for C20: without the except clause the exception of the durable
\* store leaves cache_search_results)
cache_search_results_unguarded(mem, rows, key, t, breweries, dbFails) ==
    LET expires_at == t + cache_ttl_hours
        data       == serialize_breweries(breweries)
    IN  IF dbFails
        THEN [mem |-> mem, rows |-> rows, ok |-> FALSE, raised |-> TRUE]
        ELSE [mem |-> DictPut(mem, key, [data |-> data, expires_at |-> expires_at]),
              rows |-> ReplaceRow(rows, key, data, expires_at),
              ok |-> TRUE, raised |-> FALSE]

\* cache_search_results(zipcode, radius, breweries) at time t; dbFails: the
\* durable store raises before the commit, the transaction is rolled back
\* and the in-memory dictionary is not reached.  raised: an exception
\* leaves the call (never: the except clause catches it).
cache_search_results(mem, rows, key, t, breweries, dbFails) ==
    LET expires_at == t + cache_ttl_hours
        data       == serialize_breweries(breweries)
    IN  IF dbFails
        THEN [mem |-> mem, rows |-> rows, ok |-> FALSE, raised |-> FALSE]
        ELSE [mem |-> DictPut(mem, key, [data |-> data, expires_at |-> expires_at]),
              rows |-> ReplaceRow(rows, key, data, expires_at),
              ok |-> TRUE, raised |-> FALSE]


\* ------------------------------------------------------------- scraper code
\* The strategies list of scrape_brewery_tap_list, numbered from 1 as by
\* enumerate(strategies, 1).
Strategies == << "aiohttp", "requests", "alternative_endpoints" >>

\* (variant for C5: the strategies are tried whether or not a website is known)
no_website_ignored(brewery) == FALSE

\* if not brewery.website: return [] without any request.
no_website(brewery) == brewery.website = None

\* What a strategy hands back to scrape_brewery_tap_list: it raised, or it
\* returned a beer list.
Raised == [raised |-> TRUE, beers |-> << >>]
Returned(b) == [raised |-> FALSE, beers |-> b]

\* _scrape_with_aiohttp on response r: transport and parse exceptions leave
\* the coroutine, a non-200 status gives [], a 200 page gives its parse.
scrape_with_aiohttp(r) ==
    IF r.kind = "error" THEN Raised ELSE Returned(r.beers)

\* _scrape_with_requests on response r: sync_scrape catches every exception
\* and returns [] for it.
scrape_with_requests(r) == Returned(r.beers)

\* One url variant of _scrape_with_alternative_endpoints on response r:
\* Some(beers) when the variant ends the strategy with beers, None when the
\* loop goes on (exception, non-200 status, page without beers).
alternative_variant(r) ==
    IF r.kind = "page" /\ r.beers # << >> THEN Some(r.beers) ELSE None

\* The non-empty beer lists _parse_tap_list_from_html made of response r.
Parsed(r) == IF r.kind = "page" /\ r.beers # << >> THEN {r.beers} ELSE {}

\* What scrape_brewery_tap_list sees of a finished strategy: its beer list,
\* [] for one that raised (the except clause of the loop).
Seen(out) == IF out.raised THEN << >> ELSE out.beers

\* USE_MOCK_DATA_ON_FAILURE of scraper_config.py, which the scraper never reads.
USE_MOCK_DATA_ON_FAILURE == TRUE

\* (variant for C4: the loop goes on to the next strategy after a non-empty
\* result too)
after_strategy_no_stop(s, out) ==
    IF s < Len(Strategies)
    THEN [return |-> FALSE, value |-> << >>, next |-> s + 1]
    ELSE [return |-> TRUE, value |-> Seen(out), next |-> s]

\* (variant for C6: the mock tap list is returned when every strategy failed,
\* as USE_MOCK_DATA_ON_FAILURE asks)
after_strategy_mock(s, out) ==
    IF ~out.raised /\ out.beers # << >>
    THEN [return |-> TRUE, value |-> out.beers, next |-> s]
    ELSE IF s < Len(Strategies)
    THEN [return |-> FALSE, value |-> << >>, next |-> s + 1]
    ELSE [return |-> TRUE,
          value |-> IF USE_MOCK_DATA_ON_FAILURE THEN MockTapList ELSE << >>,
          next |-> s]

\* The for loop of scrape_brewery_tap_list after strategy s came back with
\* outcome out: return its non-empty result, else go on to the next
\* strategy, and return [] after the last one.
after_strategy(s, out) ==
    IF ~out.raised /\ out.beers # << >>
    THEN [return |-> TRUE, value |-> out.beers, next |-> s]
    ELSE IF s < Len(Strategies)
    THEN [return |-> FALSE, value |-> << >>, next |-> s + 1]
    ELSE [return |-> TRUE, value |-> << >>, next |-> s]

\* Every strategy of the chain was invoked and none handed back a beer.
AllFailed(rets) ==
    Len(rets) = Len(Strategies) /\ \A j \in 1..Len(rets) : rets[j] = << >>

\* ---------------------------------------------------------- orchestrator code
\* if cached_breweries: the lookup result is used when it is truthy.
cache_hit_used(result) == result # None /\ result[1] # << >>

\* The string time.strftime gives when a scrape completes.
Stamp == "scraped_at"

\* brewery.beers = <scrape result>; brewery.last_updated = <time string>.
attach_beers(brs, i, beers) ==
    [brs EXCEPT ![i] = Brewery(brs[i].name, brs[i].website, beers, Some(Stamp))]

\* (variant for C3: a brewery without beers ends the loop)
loop_finished_abort_on_failure(brs, i) == i >= Len(brs) \/ brs[i].beers = << >>

\* (variant for C7: the batch is cached after the first brewery)
loop_finished_early(brs, i) == i >= 1

\* The for loop over breweries is over after iteration i.
loop_finished(brs, i) == i >= Len(brs)

\* Positions of an acquisition in which it waits at an await (the event loop
\* runs other work) and positions in which it is inside a synchronous
\* provider request of find_breweries_by_zipcode (requests.get, time.sleep:
\* the event loop thread is held).
AwaitPhases == {"strategy", "delay"}
BlockingPhases == {"geocode", "search", "details"}
NetworkPhases == {"geocode", "search", "details", "strategy"}

VARIABLES
    now,              \* the clock, in hours
    in_memory_cache,  \* BreweryCacheService.in_memory_cache
    db,               \* rows of the brewery_search_cache table
    pc,               \* position of each acquisition
    req,              \* the (zipcode, radius) an acquisition was called with
    breweries,        \* the brewery list an acquisition is assembling
    idx,              \* index of the brewery in work (details, scrape loop)
    strat,            \* number of the strategy in flight
    variant,          \* index of the url variant in flight (strategy 3)
    ret,              \* the value an acquisition returned
    \* history of the current scrape_brewery_tap_list call
    invoked,          \* strategies invoked, in order
    returns,          \* the beer list of each finished strategy, in order
    inflight,         \* strategies started and not yet finished
    fetches,          \* HTTP requests issued
    extracted,        \* non-empty beer lists parsed from the last response
    \* history of the acquisition
    calls,            \* provider requests and scrape calls made
    discovered,       \* names returned by discovery, in order
    scrape_log,       \* per scraped brewery: name, and whether all strategies failed
    touched,          \* cache tiers the acquisition changed, and in which call
    prior,            \* a valid entry of a completed acquisition existed at start
    write_log,        \* cache_search_results calls, in order
    \* history of the cache service calls (cache specification)
    last_call,        \* the latest get_cached_search or cache_search_results call
    stored,           \* per key, the latest successful cache_search_results
    \* the objects of callers and cache (object-identity specification)
    heap,             \* the objects that exist, by identity
    next_id,          \* the next identity to give out
    held,             \* lists the caller holds: passed to or returned by the cache
    passed,           \* lists the caller passed to cache_search_results
    mem_ref,          \* the list in the in-memory entry of the key
    row_json,         \* the JSON document in the durable row of the key
    expected,         \* the serialized payload of the latest cache_search_results
    last_get,         \* what the latest get_cached_search since then returned
    mutated,          \* objects the caller changed
    alias_calls,      \* cache calls made
    \* one find_breweries_by_zipcode call (discovery specification)
    d_pc,             \* position of the call
    api_key,          \* BreweryFinder.api_key
    geocode_status,   \* how the geocoding request ended
    nearby_found,     \* what _nearby_search_breweries returned
    text_found,       \* the list _text_search_breweries is building
    text_q,           \* number of the text query in flight
    breweries_found,  \* the merged candidates, before the sort
    top_breweries,    \* the sorted and truncated list being enriched
    d_idx,            \* index of the brewery whose details are in flight
    requests,         \* provider requests issued, by kind
    detail_log,       \* detail lookups made, in order, with their outcome
    d_ret,            \* the list the call returned
    http,             \* the answer of the search endpoint
    \* detail cache and cache management (maintenance specification)
    detail_db,        \* rows of the cached_breweries table
    maint,            \* the latest call of the cache service, and what it met
    api_response,     \* the answer of the latest cache-management endpoint
    \* one _parse_tap_list_from_html call (parsing specification)
    parse_pc,         \* position of the call
    base_url,         \* whether base_url holds canyonclub.works
    parse_beers,      \* the list beers the call is building
    selector,         \* index of the selector being evaluated
    selector_log,     \* valid beers each evaluated selector yielded, in order
    before_loop,      \* beers found before the selector loop
    text_used,        \* _extract_beers_from_text_enhanced was called
    checked,          \* the latest _is_valid_beer call and its result
    parse_ret,        \* the list the call returned
    \* the signatures one BreweryWebScraper sends (signature specification)
    current_user_agent_index, \* BreweryWebScraper.current_user_agent_index
    attempt,          \* the strategy and url variant about to be tried, and the
                      \* requests the latest scrape_brewery_tap_list call sent
    sent,             \* the User-Agent of the latest request
    sent_before       \* the User-Agent of the request before it

alias_vars == << heap, next_id, held, passed, mem_ref, row_json, expected, last_get,
                 mutated, alias_calls >>
disc_vars == << d_pc, api_key, geocode_status, nearby_found, text_found, text_q,
                breweries_found, top_breweries, d_idx, requests, detail_log, d_ret, http >>
maint_vars == << detail_db, maint, api_response >>
parse_vars == << parse_pc, base_url, parse_beers, selector, selector_log, before_loop,
                 text_used, checked, parse_ret >>
agent_vars == << current_user_agent_index, attempt, sent, sent_before >>
unit_vars == << alias_vars, disc_vars, maint_vars, parse_vars, agent_vars >>
scrape_vars == << strat, variant, invoked, returns, inflight, fetches, extracted >>
cache_hist == << last_call, stored >>
vars == << now, in_memory_cache, db, pc, req, breweries, idx, ret, scrape_vars,
           calls, discovered, scrape_log, touched, prior, write_log, cache_hist, unit_vars >>

NoMaint == [op |-> "none", key |-> << >>, ok |-> TRUE, result |-> None, logged |-> None]
NoResponse == [endpoint |-> "none", status |-> 0, statistics |-> None, details |-> None]

NoCall == [op |-> "none", key |-> << >>, at |-> 0, tier |-> "none",
           durable_read |-> FALSE, result |-> None, had_fast |-> None, had_rows |-> {}]

Init ==
    /\ now = 0
    /\ in_memory_cache = << >>
    /\ db = {}
    /\ pc = [p \in Procs |-> "idle"]
    /\ req = [p \in Procs |-> << >>]
    /\ breweries = [p \in Procs |-> << >>]
    /\ idx = [p \in Procs |-> 0]
    /\ strat = [p \in Procs |-> 0]
    /\ variant = [p \in Procs |-> 0]
    /\ ret = [p \in Procs |-> None]
    /\ invoked = [p \in Procs |-> << >>]
    /\ returns = [p \in Procs |-> << >>]
    /\ inflight = [p \in Procs |-> {}]
    /\ fetches = [p \in Procs |-> 0]
    /\ extracted = [p \in Procs |-> {}]
    /\ calls = [p \in Procs |-> [discovery |-> 0, scrape |-> 0]]
    /\ discovered = [p \in Procs |-> << >>]
    /\ scrape_log = [p \in Procs |-> << >>]
    /\ touched = [p \in Procs |-> {}]
    /\ prior = [p \in Procs |-> FALSE]
    /\ write_log = << >>
    /\ last_call = NoCall
    /\ stored = [k \in Keys |-> None]
    /\ heap = << >>
    /\ next_id = 1
    /\ held = {}
    /\ passed = {}
    /\ mem_ref = None
    /\ row_json = None
    /\ expected = None
    /\ last_get = None
    /\ mutated = {}
    /\ alias_calls = 0
    /\ d_pc = "idle"
    /\ api_key = None
    /\ geocode_status = "none"
    /\ nearby_found = << >>
    /\ text_found = << >>
    /\ text_q = 0
    /\ breweries_found = << >>
    /\ top_breweries = << >>
    /\ d_idx = 0
    /\ requests = [geocode |-> 0, nearby |-> 0, text |-> 0, details |-> 0]
    /\ detail_log = << >>
    /\ d_ret = None
    /\ http = None
    /\ detail_db = {}
    /\ maint = NoMaint
    /\ api_response = NoResponse
    /\ parse_pc = "idle"
    /\ base_url = "none"
    /\ parse_beers = << >>
    /\ selector = 0
    /\ selector_log = << >>
    /\ before_loop = 0
    /\ text_used = FALSE
    /\ checked = None
    /\ parse_ret = None
    /\ current_user_agent_index = 0
    /\ attempt = [strategy |-> 0, variant |-> 0, requests |-> 0]
    /\ sent = None
    /\ sent_before = None

\* The clock advances.
Tick ==
    /\ now < MaxTime
    /\ now' = now + 1
    /\ UNCHANGED << in_memory_cache, db, pc, req, breweries, idx, ret, scrape_vars,
                    calls, discovered, scrape_log, touched, prior, write_log, cache_hist, unit_vars >>

\* The single event-loop thread is free for acquisition p: no other
\* acquisition is inside a synchronous call.
LoopFree(p) == \A q \in Procs \ {p} : pc[q] \notin BlockingPhases

\* The tiers a step changed, tagged with the cache call that changed them.
Changed(call) ==
    (IF in_memory_cache' # in_memory_cache THEN { << "fast", call >> } ELSE {})
    \cup (IF db' # db THEN { << "durable", call >> } ELSE {})

\* The text-search queries of _text_search_breweries.
TextSearchQueries == << "brewery", "brewpub", "taproom", "craft beer", "microbrewery" >>

KeyOf(p) == generate_cache_key(req[p][1], req[p][2])

\* The locals of an acquisition whose coroutine has ended are gone.
DropLocals(p) ==
    /\ idx' = [idx EXCEPT ![p] = 0]
    /\ strat' = [strat EXCEPT ![p] = 0]
    /\ variant' = [variant EXCEPT ![p] = 0]
    /\ invoked' = [invoked EXCEPT ![p] = << >>]
    /\ returns' = [returns EXCEPT ![p] = << >>]
    /\ inflight' = [inflight EXCEPT ![p] = {}]
    /\ fetches' = [fetches EXCEPT ![p] = 0]
    /\ extracted' = [extracted EXCEPT ![p] = {}]

\* Lines 1048-1052 of get_breweries_with_tap_lists: the batch brs is handed
\* to cache_search_results and returned; the call is not inside a try, an
\* exception leaving it would end the acquisition.
FinishBatch(p, brs, dbFails) ==
    LET w == cache_search_results(in_memory_cache, db, KeyOf(p), now, brs, dbFails)
    IN  /\ in_memory_cache' = w.mem
        /\ db' = w.rows
        /\ write_log' = Append(write_log,
               [proc |-> p, key |-> KeyOf(p), ok |-> w.ok, at |-> now,
                scraped |-> Len(scrape_log[p]), total |-> Len(brs),
                data |-> serialize_breweries(brs)])
        /\ touched' = [touched EXCEPT ![p] = @ \cup Changed("write")]
        /\ breweries' = [breweries EXCEPT ![p] = brs]
        /\ IF w.raised
           THEN /\ pc' = [pc EXCEPT ![p] = "failed"]
                /\ ret' = ret
           ELSE /\ pc' = [pc EXCEPT ![p] = "done"]
                /\ ret' = [ret EXCEPT ![p] = Some(brs)]
        /\ DropLocals(p)

\* Iteration i of the scrape loop begins: scrape_brewery_tap_list(brs[i]) is
\* called; without a website it returns [] at once and the loop waits in
\* _random_delay, with a website strategy 1 is invoked.  c: the call
\* counters of p so far.
EnterBrewery(p, brs, i, c) ==
    /\ idx' = [idx EXCEPT ![p] = i]
    /\ calls' = [calls EXCEPT ![p] = [c EXCEPT !.scrape = @ + 1]]
    /\ returns' = [returns EXCEPT ![p] = << >>]
    /\ extracted' = [extracted EXCEPT ![p] = {}]
    /\ variant' = [variant EXCEPT ![p] = 0]
    /\ IF no_website(brs[i])
       THEN /\ breweries' = [breweries EXCEPT ![p] = attach_beers(brs, i, << >>)]
            /\ scrape_log' = [scrape_log EXCEPT ![p] =
                   Append(@, [name |-> brs[i].name, all_failed |-> FALSE,
                              value |-> << >>])]
            /\ pc' = [pc EXCEPT ![p] = "delay"]
            /\ strat' = [strat EXCEPT ![p] = 0]
            /\ invoked' = [invoked EXCEPT ![p] = << >>]
            /\ inflight' = [inflight EXCEPT ![p] = {}]
            /\ fetches' = [fetches EXCEPT ![p] = 0]
       ELSE /\ breweries' = [breweries EXCEPT ![p] = brs]
            /\ scrape_log' = scrape_log
            /\ pc' = [pc EXCEPT ![p] = "strategy"]
            /\ strat' = [strat EXCEPT ![p] = 1]
            /\ invoked' = [invoked EXCEPT ![p] = << 1 >>]
            /\ inflight' = [inflight EXCEPT ![p] = {1}]
            /\ fetches' = [fetches EXCEPT ![p] = 1]

\* get_breweries_with_tap_lists(zipcode, radius) is called: the cache
\* lookup (not inside a try: an exception leaving it would end the
\* acquisition), and on a miss the entry into find_breweries_by_zipcode.
Start(p, k, dbFails) ==
    /\ pc[p] = "idle"
    /\ LoopFree(p)
    /\ LET key == generate_cache_key(k[1], k[2])
           g   == get_cached_search(in_memory_cache, db, key, now, dbFails)
       IN  /\ in_memory_cache' = g.mem
           /\ db' = db
           /\ req' = [req EXCEPT ![p] = k]
           /\ prior' = [prior EXCEPT ![p] =
                  /\ \E q \in Procs : pc[q] = "done" /\ req[q] = k
                  /\ key \in DOMAIN in_memory_cache
                  /\ now < in_memory_cache[key].expires_at]
           /\ touched' = [touched EXCEPT ![p] = @ \cup Changed("lookup")]
           /\ IF g.raised
              THEN /\ pc' = [pc EXCEPT ![p] = "failed"]
                   /\ ret' = ret
              ELSE IF cache_hit_used(g.result)
              THEN /\ pc' = [pc EXCEPT ![p] = "done"]
                   /\ ret' = [ret EXCEPT ![p] = g.result]
              ELSE /\ pc' = [pc EXCEPT ![p] = "geocode"]
                   /\ ret' = ret
    /\ UNCHANGED << now, breweries, idx, scrape_vars, calls, discovered, scrape_log,
                    write_log, cache_hist, unit_vars >>

\* The geocoding request of find_breweries_by_zipcode comes back: with
\* coordinates, or without (denied, no result, exception), and then
\* discovery returns [] and the empty batch is finished.
Geocode(p, found, dbFails) ==
    /\ pc[p] = "geocode"
    /\ LoopFree(p)
    /\ calls' = [calls EXCEPT ![p].discovery = @ + 1]
    /\ IF found
       THEN /\ pc' = [pc EXCEPT ![p] = "search"]
            /\ UNCHANGED << in_memory_cache, db, write_log, touched, breweries, ret >>
            /\ UNCHANGED << idx, scrape_vars >>
       ELSE FinishBatch(p, << >>, dbFails)
    /\ UNCHANGED << now, req, discovered, scrape_log, prior, cache_hist, unit_vars >>

\* The nearby search and the text searches come back with n breweries
\* (merged, ranked, capped); none: discovery returns [] and the empty batch
\* is finished.
Search(p, n, dbFails) ==
    /\ pc[p] = "search"
    /\ LoopFree(p)
    /\ calls' = [calls EXCEPT ![p].discovery = @ + 1 + Len(TextSearchQueries)]
    /\ IF n > 0
       THEN /\ breweries' = [breweries EXCEPT ![p] =
                   [i \in 1..n |-> Brewery(BreweryName(i), None, << >>, None)]]
            /\ idx' = [idx EXCEPT ![p] = 1]
            /\ pc' = [pc EXCEPT ![p] = "details"]
            /\ UNCHANGED << in_memory_cache, db, write_log, touched, ret, scrape_vars >>
       ELSE FinishBatch(p, << >>, dbFails)
    /\ UNCHANGED << now, req, discovered, scrape_log, prior, cache_hist, unit_vars >>

\* One detail lookup of _enrich_breweries_with_details comes back, with a
\* website or without one; after the last one discovery returns and the
\* scrape loop begins.
DetailLookup(p, hasSite) ==
    /\ pc[p] = "details"
    /\ LoopFree(p)
    /\ LET i    == idx[p]
           brs  == IF hasSite
                   THEN [breweries[p] EXCEPT ![i].website = Some(Url(i))]
                   ELSE breweries[p]
           c    == [calls[p] EXCEPT !.discovery = @ + 1]
       IN  IF i < Len(brs)
           THEN /\ breweries' = [breweries EXCEPT ![p] = brs]
                /\ idx' = [idx EXCEPT ![p] = i + 1]
                /\ calls' = [calls EXCEPT ![p] = c]
                /\ UNCHANGED << pc, scrape_vars, discovered, scrape_log >>
           ELSE /\ discovered' = [discovered EXCEPT ![p] =
                       [j \in 1..Len(brs) |-> brs[j].name]]
                /\ EnterBrewery(p, brs, 1, c)
    /\ UNCHANGED << now, in_memory_cache, db, req, ret, touched, prior, write_log,
                    cache_hist, unit_vars >>

\* Strategy s of the current scrape call came back with outcome out, after
\* response r: scrape_brewery_tap_list returns, or invokes the next
\* strategy.
StrategyDone(p, s, out, r) ==
    LET d == after_strategy(s, out)
        i == idx[p]
    IN  /\ returns' = [returns EXCEPT ![p] = Append(@, Seen(out))]
        /\ extracted' = [extracted EXCEPT ![p] =
               Parsed(r)]
        /\ IF d.return
           THEN /\ breweries' = [breweries EXCEPT ![p] = attach_beers(@, i, d.value)]
                /\ scrape_log' = [scrape_log EXCEPT ![p] =
                       Append(@, [name |-> breweries[p][i].name,
                                  all_failed |-> AllFailed(Append(returns[p], Seen(out))),
                                  value |-> d.value])]
                /\ pc' = [pc EXCEPT ![p] = "delay"]
                /\ inflight' = [inflight EXCEPT ![p] = @ \ {s}]
                /\ UNCHANGED << strat, variant, invoked, fetches >>
           ELSE /\ strat' = [strat EXCEPT ![p] = d.next]
                /\ variant' = [variant EXCEPT ![p] =
                       IF d.next = Len(Strategies) THEN 1 ELSE 0]
                /\ invoked' = [invoked EXCEPT ![p] = Append(@, d.next)]
                /\ inflight' = [inflight EXCEPT ![p] = (@ \ {s}) \cup {d.next}]
                /\ fetches' = [fetches EXCEPT ![p] = @ + 1]
                /\ UNCHANGED << breweries, scrape_log, pc >>

\* The request of _scrape_with_aiohttp (strategy 1) comes back.
AiohttpDone(p, r) ==
    /\ pc[p] = "strategy" /\ strat[p] = 1
    /\ LoopFree(p)
    /\ StrategyDone(p, 1, scrape_with_aiohttp(r), r)
    /\ UNCHANGED << now, in_memory_cache, db, req, idx, ret, calls, discovered,
                    touched, prior, write_log, cache_hist, unit_vars >>

\* The executor thread of _scrape_with_requests (strategy 2) comes back.
RequestsDone(p, r) ==
    /\ pc[p] = "strategy" /\ strat[p] = 2
    /\ LoopFree(p)
    /\ StrategyDone(p, 2, scrape_with_requests(r), r)
    /\ UNCHANGED << now, in_memory_cache, db, req, idx, ret, calls, discovered,
                    touched, prior, write_log, cache_hist, unit_vars >>

\* The request for one url variant of _scrape_with_alternative_endpoints
\* (strategy 3) comes back: the strategy returns the beers of the variant,
\* goes on to the next variant, or returns [] after the last one.
AlternativeDone(p, r) ==
    /\ pc[p] = "strategy" /\ strat[p] = 3
    /\ LoopFree(p)
    /\ LET a == alternative_variant(r)
       IN  IF a = None /\ variant[p] < NumUrlVariations
           THEN /\ variant' = [variant EXCEPT ![p] = @ + 1]
                /\ fetches' = [fetches EXCEPT ![p] = @ + 1]
                /\ extracted' = [extracted EXCEPT ![p] =
                       Parsed(r)]
                /\ UNCHANGED << pc, breweries, scrape_log, strat, invoked, returns,
                                inflight >>
           ELSE StrategyDone(p, 3, Returned(IF a = None THEN << >> ELSE a[1]), r)
    /\ UNCHANGED << now, in_memory_cache, db, req, idx, ret, calls, discovered,
                    touched, prior, write_log, cache_hist, unit_vars >>

\* _random_delay is over: the loop goes on to the next brewery, or it is
\* finished and the batch is cached and returned.
DelayDone(p, dbFails) ==
    /\ pc[p] = "delay"
    /\ LoopFree(p)
    /\ IF loop_finished(breweries[p], idx[p])
       THEN /\ FinishBatch(p, breweries[p], dbFails)
            /\ UNCHANGED << calls, scrape_log >>
       ELSE /\ EnterBrewery(p, breweries[p], idx[p] + 1, calls[p])
            /\ UNCHANGED << in_memory_cache, db, ret, touched, write_log >>
    /\ UNCHANGED << now, req, discovered, prior, cache_hist, unit_vars >>

\* The caller abandons the acquisition while it waits at an await: the
\* event loop throws CancelledError into the coroutine, which no except
\* clause of the acquisition catches.
Cancel(p) ==
    /\ pc[p] \in AwaitPhases
    /\ LoopFree(p)
    /\ pc' = [pc EXCEPT ![p] = "cancelled"]
    /\ breweries' = [breweries EXCEPT ![p] = << >>]
    /\ DropLocals(p)
    /\ UNCHANGED << now, in_memory_cache, db, req, ret, calls, discovered, scrape_log,
                    touched, prior, write_log, cache_hist, unit_vars >>

\* ------------------------------------------------- the cache service alone
\* Brewery lists handed to cache_search_results.
Batches ==
    { << >>,
      << Brewery(BreweryName(1), None, << >>, Some(Stamp)) >>,
      << Brewery(BreweryName(1), Some(Url(1)),
                 << Beer("Beta Tested", "Czech-Style Pils", 51) >>, Some(Stamp)) >> }

orch_vars == << pc, req, breweries, idx, ret, scrape_vars, calls, discovered,
                scrape_log, touched, prior, write_log >>

EntryOf(mem, key) == IF key \in DOMAIN mem THEN Some(mem[key]) ELSE None
RowsOf(rows, key) == { r \in rows : r.id = key }

\* A caller calls get_cached_search(zipcode, radius).
CacheGet(k, dbFails) ==
    LET key == generate_cache_key(k[1], k[2])
        g   == get_cached_search(in_memory_cache, db, key, now, dbFails)
    IN  /\ in_memory_cache' = g.mem
        /\ last_call' = [op |-> "get", key |-> key, at |-> now, tier |-> g.tier,
                         durable_read |-> g.durable_read, result |-> g.result,
                         had_fast |-> EntryOf(in_memory_cache, key),
                         had_rows |-> RowsOf(db, key)]
        /\ UNCHANGED << now, db, stored, orch_vars, unit_vars >>

\* A caller calls cache_search_results(zipcode, radius, breweries).
CachePut(k, brs, dbFails) ==
    LET key == generate_cache_key(k[1], k[2])
        w   == cache_search_results(in_memory_cache, db, key, now, brs, dbFails)
    IN  /\ in_memory_cache' = w.mem
        /\ db' = w.rows
        /\ last_call' = [op |-> "put", key |-> key, at |-> now,
                         tier |-> IF w.ok THEN "both" ELSE "error",
                         durable_read |-> FALSE, result |-> Some(brs),
                         had_fast |-> EntryOf(in_memory_cache, key),
                         had_rows |-> RowsOf(db, key)]
        /\ stored' = IF w.ok
                     THEN [stored EXCEPT ![key] = Some([at |-> now, breweries |-> brs])]
                     ELSE stored
        /\ UNCHANGED << now, orch_vars, unit_vars >>

\* The process is started again: BreweryCacheService.__init__ builds an empty
\* in-memory dictionary over the database file that is already there.
Restart ==
    /\ in_memory_cache # << >>
    /\ in_memory_cache' = << >>
    /\ last_call' = NoCall
    /\ UNCHANGED << now, db, stored, orch_vars, unit_vars >>

NextCache ==
    \/ Tick
    \/ Restart
    \/ \E k \in Keys, f \in BOOLEAN : CacheGet(k, f)
    \/ \E k \in Keys, b \in Batches, f \in BOOLEAN : CachePut(k, b, f)

CacheSpec == Init /\ [][NextCache]_vars

\* Calls one after another: the second caller calls after the first call
\* has ended, for the same key.
InTurn(p, k) ==
    /\ k \in Asks("p1")
    /\ p # "p1" => pc["p1"] \in {"done", "cancelled"}

\* The steps of one acquisition after its start; discovery returns at most
\* maxN breweries.
Steps(p, maxN) ==
    \/ \E found \in BOOLEAN, f \in BOOLEAN : Geocode(p, found, f)
    \/ \E n \in 0..maxN, f \in BOOLEAN : Search(p, n, f)
    \/ \E hasSite \in BOOLEAN : DetailLookup(p, hasSite)
    \/ \E r \in Responses : AiohttpDone(p, r)
    \/ \E r \in Responses : RequestsDone(p, r)
    \/ \E r \in Responses : AlternativeDone(p, r)
    \/ \E f \in BOOLEAN : DelayDone(p, f)
    \/ Cancel(p)

\* Acquisitions called one after another, while the clock advances.
Next ==
    \/ Tick
    \/ \E p \in Procs, k \in Keys, f \in BOOLEAN : InTurn(p, k) /\ Start(p, k, f)
    \/ \E p \in Procs : Steps(p, MaxBreweries)

Spec == Init /\ [][Next]_vars

\* Acquisitions called at any time on the one event loop.
NextConcurrent ==
    \/ \E p \in Procs : \E k \in Asks(p), f \in BOOLEAN : Start(p, k, f)
    \/ \E p \in Procs : Steps(p, MaxBreweriesConcurrent)

ConcurrentSpec == Init /\ [][NextConcurrent]_vars

\* ------------------------------------------- object identity in the cache
\* Python lists, Brewery and Beer objects and dictionaries are mutable and
\* are passed by reference.  An object of the heap is a list ([items]) of
\* references or a record whose beers field is a reference to a list; the
\* other fields are strings and numbers, which cannot be changed in place.

\* What the steps on callers' objects and the steps of a discovery call leave
\* alone.
cache_vars == << now, in_memory_cache, db, cache_hist >>
alias_frame == << cache_vars, orch_vars, disc_vars, maint_vars, parse_vars, agent_vars >>
discovery_frame == << cache_vars, orch_vars, alias_vars, maint_vars, parse_vars, agent_vars >>

\* Cache calls and caller changes the object-identity specification explores.
MaxAliasCalls == 3
MaxMutations == 2

\* The beers a beer list object holds, as a value.
BeersAt(h, r) == [j \in 1..Len(h[r].items) |-> h[h[r].items[j]]]
\* The brewery list a list object holds, as a value.
ValueAt(h, r) ==
    [i \in 1..Len(h[r].items) |->
        [h[h[r].items[i]] EXCEPT !.beers = BeersAt(h, @)]]
\* The objects reachable from list object r.
Reach(h, r) ==
    LET brs == { h[r].items[i] : i \in 1..Len(h[r].items) }
        bls == { h[b].beers : b \in brs }
    IN  {r} \cup brs \cup bls
            \cup UNION { { h[l].items[j] : j \in 1..Len(h[l].items) } : l \in bls }

\* New objects for the brewery list `value`, from identity n on: the list,
\* and per entry the record, its beer list and the beer records.
Build(h, n, value) ==
    LET lens == { Len(value[i].beers) : i \in 1..Len(value) } \cup {0}
        st   == 2 + CHOOSE m \in lens : \A x \in lens : x <= m
        at(i) == n + 1 + (i - 1) * st
        ids  == {n} \cup UNION { {at(i), at(i) + 1}
                                   \cup { at(i) + 1 + j : j \in 1..Len(value[i].beers) }
                                 : i \in 1..Len(value) }
        obj(x) ==
            IF x = n
            THEN [items |-> [i \in 1..Len(value) |-> at(i)]]
            ELSE LET i == ((x - n - 1) \div st) + 1
                     o == (x - n - 1) % st
                 IN  IF o = 0 THEN [value[i] EXCEPT !.beers = x + 1]
                     ELSE IF o = 1
                     THEN [items |-> [j \in 1..Len(value[i].beers) |-> x + j]]
                     ELSE value[i].beers[o - 1]
    IN  [heap |-> [x \in (DOMAIN h) \cup ids |-> IF x \in DOMAIN h THEN h[x] ELSE obj(x)],
         ref  |-> n,
         next |-> n + 1 + Len(value) * st]

\* (variant for C12: the caller's list itself is kept as the payload)
serialize_breweries_obj_shared(h, n, r) == [heap |-> h, ref |-> r, next |-> n]

\* _serialize_breweries on list object r: a new list of new dictionaries,
\* each with a new list of new beer dictionaries.
serialize_breweries_obj(h, n, r) == Build(h, n, serialize_breweries(ValueAt(h, r)))

\* _deserialize_breweries on the payload list r: a new list of new Brewery
\* objects, each with a new list of new Beer objects.
deserialize_breweries_obj(h, n, r) == Build(h, n, deserialize_breweries(ValueAt(h, r)))

\* The caller builds a brewery list.
CallerBuilds(b) ==
    /\ held = {}
    /\ LET c == Build(heap, next_id, b)
       IN  /\ heap' = c.heap
           /\ next_id' = c.next
           /\ held' = {c.ref}
    /\ UNCHANGED << passed, mem_ref, row_json, expected, last_get, mutated, alias_calls >>
    /\ UNCHANGED alias_frame

\* cache_search_results(zipcode, radius, breweries) with list object r: the
\* row gets the JSON text of the payload, the in-memory entry the payload.
AliasPut(r) ==
    /\ alias_calls < MaxAliasCalls
    /\ r \in held
    /\ LET d == serialize_breweries_obj(heap, next_id, r)
       IN  /\ heap' = d.heap
           /\ next_id' = d.next
           /\ mem_ref' = Some(d.ref)
           /\ row_json' = Some(ValueAt(d.heap, d.ref))
           /\ expected' = Some(ValueAt(d.heap, d.ref))
    /\ passed' = passed \cup {r}
    /\ last_get' = None
    /\ alias_calls' = alias_calls + 1
    /\ UNCHANGED << held, mutated >>
    /\ UNCHANGED alias_frame

\* get_cached_search(zipcode, radius): from the in-memory payload, or from
\* the row, whose JSON text is parsed into a new payload that is installed
\* in memory; the caller gets what _deserialize_breweries built.
AliasGet ==
    /\ alias_calls < MaxAliasCalls
    /\ row_json # None
    /\ LET l == IF mem_ref # None
                THEN [heap |-> heap, ref |-> mem_ref[1], next |-> next_id]
                ELSE Build(heap, next_id, row_json[1])
           g == deserialize_breweries_obj(l.heap, l.next, l.ref)
       IN  /\ heap' = g.heap
           /\ next_id' = g.next
           /\ mem_ref' = Some(l.ref)
           /\ held' = held \cup {g.ref}
           /\ last_get' = Some([value |-> ValueAt(g.heap, g.ref), after |-> mutated])
    /\ alias_calls' = alias_calls + 1
    /\ UNCHANGED << passed, row_json, expected, mutated >>
    /\ UNCHANGED alias_frame

\* What a caller can do to an object it reaches: empty a list, rename a
\* brewery, change the strength of a beer.
Changes(o) ==
    IF "items" \in DOMAIN o THEN { [o EXCEPT !.items = << >>] }
    ELSE IF "beers" \in DOMAIN o THEN { [o EXCEPT !.name = << "renamed" >>] }
    ELSE { [o EXCEPT !.abv = 0] }

\* The caller changes an object it reaches from a list it holds.
CallerMutates(x) ==
    /\ Cardinality(mutated) < MaxMutations
    /\ \E r \in held : x \in Reach(heap, r)
    /\ \E o \in Changes(heap[x]) :
          /\ o # heap[x]
          /\ heap' = [heap EXCEPT ![x] = o]
    /\ mutated' = mutated \cup {x}
    /\ UNCHANGED << next_id, held, passed, mem_ref, row_json, expected, last_get,
                    alias_calls >>
    /\ UNCHANGED alias_frame

\* The process is started again: the in-memory dictionary is empty.
AliasRestart ==
    /\ mem_ref # None
    /\ mem_ref' = None
    /\ UNCHANGED << heap, next_id, held, passed, row_json, expected, last_get, mutated,
                    alias_calls >>
    /\ UNCHANGED alias_frame

NextAlias ==
    \/ \E b \in Batches : CallerBuilds(b)
    \/ \E r \in held : AliasPut(r)
    \/ AliasGet
    \/ \E x \in DOMAIN heap : CallerMutates(x)
    \/ AliasRestart

AliasSpec == Init /\ [][NextAlias]_vars

\* ------------------------------------------------------- discovery code
\* breweries_found[:15]: the number of candidates that get detail lookups.
MaxTopBreweries == 15
\* Longest result list of one provider response built from the named places,
\* and the number of places of the long nearby-search result.
MaxPlaces == 2
MaxBulk == 16

\* A brewery name: its letters (words and a number) and its casing;
\* name.lower() keeps the letters.
Name(letters, casing) == << letters, casing >>
Lower(name) == << name[1], "lower" >>

\* The Brewery _parse_brewery_from_places makes of a provider record: name,
\* _place_id, and the distance calculate_distance will give for its
\* coordinates (None: the record has no coordinates); no website yet.
Candidate(n, id, dist) ==
    [name |-> n, place_id |-> id, distance_miles |-> dist, website |-> None]

\* Places of the provider: two with the same name up to case, one without
\* coordinates and without place id, two at the same distance.
Places ==
    { Candidate(Name(<< "ale house", 0 >>, "Title"), Some(1), Some(2)),
      Candidate(Name(<< "ale house", 0 >>, "UPPER"), Some(2), Some(1)),
      Candidate(Name(<< "tap room", 0 >>, "Title"), None, None),
      Candidate(Name(<< "beer barn", 0 >>, "Title"), Some(4), Some(2)) }

\* A long nearby-search result: n places with names of their own, some at
\* equal distances, every fifth without coordinates.
BulkList(n) ==
    [i \in 1..n |->
        Candidate(Name(<< "brewing co", i >>, "Title"), Some(10 + i),
                  IF i % 5 = 0 THEN None ELSE Some(i % 4))]

\* The result lists of one response built from the named places, no place
\* twice.
RECURSIVE ListsUpTo(_)
ListsUpTo(n) ==
    IF n = 0 THEN { << >> }
    ELSE LET shorter == ListsUpTo(n - 1)
             fresh(l) == { c \in Places : \A i \in 1..Len(l) : l[i] # c }
         IN  shorter \cup UNION { { Append(l, c) : c \in fresh(l) }
                                  : l \in { x \in shorter : Len(x) = n - 1 } }

\* Answers to the nearby search: an exception (transport, JSON), a
\* REQUEST_DENIED status, or results.
NearbyResponses ==
    { [kind |-> "error", results |-> << >>], [kind |-> "denied", results |-> << >>] }
    \cup { [kind |-> "ok", results |-> l] : l \in ListsUpTo(MaxPlaces) }
    \cup { [kind |-> "ok", results |-> BulkList(n)] : n \in {MaxBulk - 1, MaxBulk} }

\* Answers to one text-search query: an exception, a status other than OK,
\* or status OK with results.
TextResponses ==
    { [kind |-> "error", results |-> << >>], [kind |-> "not_ok", results |-> << >>] }
    \cup { [kind |-> "ok", results |-> l] : l \in ListsUpTo(1) }
    \cup { [kind |-> "ok", results |-> << a, b >>] :
             a \in { c \in Places : c.place_id = Some(2) },
             b \in { c \in Places : c.place_id = Some(4) } }

\* Answers to the geocoding request.
GeocodeStatuses == { "OK", "REQUEST_DENIED", "ZERO_RESULTS", "error" }

\* How a detail lookup for place id can end: with a website, with a result
\* without website, or failed (exception, status other than OK).
DetailOutcomes(id) ==
    IF id <= 10 THEN { "site", "fail" }
    ELSE { << "site", "none", "fail" >>[(id % 3) + 1] }

\* (variant for C18: the geocoding request is issued without a key too)
no_api_key_ignored(key) == FALSE

\* if not self.api_key: return []
no_api_key(key) == key = None

\* (variant for C19: only a denial ends discovery, an answer without results
\* lets it go on to the searches)
geocode_unresolved_denied_only(status) == status = "REQUEST_DENIED"

\* The geocoding answer gives no coordinates: denied, no results, or an
\* exception; find_breweries_by_zipcode returns [].
geocode_unresolved(status) == status # "OK"

\* _nearby_search_breweries: the parsed results, [] for REQUEST_DENIED.
nearby_search_breweries(resp) == IF resp.kind = "ok" THEN resp.results ELSE << >>

\* One query of _text_search_breweries: the results of an OK answer are
\* appended unless an equal Brewery is already in the list.
RECURSIVE append_new(_, _)
append_new(acc, results) ==
    IF results = << >> THEN acc
    ELSE LET b == Head(results)
         IN  append_new(IF \E i \in 1..Len(acc) : acc[i] = b THEN acc ELSE Append(acc, b),
                        Tail(results))
text_query(acc, resp) == IF resp.kind = "ok" THEN append_new(acc, resp.results) ELSE acc

\* Lines 126-143: every nearby result is kept and its lower-cased name
\* remembered; a text result is appended when its lower-cased name has not
\* been seen.
RECURSIVE merge_text(_, _, _)
merge_text(found, seen, text) ==
    IF text = << >> THEN found
    ELSE LET b == Head(text)
         IN  IF Lower(b.name) \in seen
             THEN merge_text(found, seen, Tail(text))
             ELSE merge_text(Append(found, b), seen \cup { Lower(b.name) }, Tail(text))
merge_results(nearby, text) ==
    merge_text(nearby, { Lower(nearby[i].name) : i \in 1..Len(nearby) }, text)

\* The sort key: distance_miles, float('inf') without coordinates.
\* DistLess(a, b): key a < key b.
DistLess(a, b) == a # None /\ (b = None \/ a[1] < b[1])

\* (variant for C15: an entry is placed before the entries of equal distance)
insert_after_smaller_unstable(order, seq, i) ==
    LET c == Cardinality({ k \in 1..Len(order) :
                 DistLess(seq[order[k]].distance_miles, seq[i].distance_miles) })
    IN  SubSeq(order, 1, c) \o << i >> \o SubSeq(order, c + 1, Len(order))

\* list.sort is stable: entry i goes after every entry whose key is not
\* greater than its own.
insert_after_smaller(order, seq, i) ==
    LET c == Cardinality({ k \in 1..Len(order) :
                 ~DistLess(seq[i].distance_miles, seq[order[k]].distance_miles) })
    IN  SubSeq(order, 1, c) \o << i >> \o SubSeq(order, c + 1, Len(order))

\* breweries_found.sort(key=distance): the positions of the list in sorted
\* order.
RECURSIVE sort_order(_, _)
sort_order(seq, n) ==
    IF n = 0 THEN << >> ELSE insert_after_smaller(sort_order(seq, n - 1), seq, n)
sort_by_distance(seq) ==
    LET order == sort_order(seq, Len(seq)) IN [k \in 1..Len(seq) |-> seq[order[k]]]

\* (variant for C16: every candidate is enriched and returned)
top_of_uncapped(sorted) == sorted

\* top_breweries = breweries_found[:15]
top_of(sorted) ==
    SubSeq(sorted, 1, IF Len(sorted) < MaxTopBreweries THEN Len(sorted) ELSE MaxTopBreweries)

\* The next brewery after position i that has a _place_id, 0 when none.
next_lookup(top, i) ==
    LET later == { j \in (i + 1)..Len(top) : top[j].place_id # None }
    IN  IF later = {} THEN 0 ELSE CHOOSE j \in later : \A k \in later : j <= k

\* The answer of GET /breweries/search/{zipcode} for a discovery that
\* returned list l.
search_response(l) == [status |-> 200, total_breweries |-> Len(l)]

\* find_breweries_by_zipcode returns list l, and the search endpoint answers.
DiscoveryReturns(l) ==
    /\ d_ret' = Some(l)
    /\ http' = Some(search_response(l))
    /\ d_pc' = "returned"

\* find_breweries_by_zipcode is called on a finder with or without API key:
\* without one it returns [], with one the geocoding request is issued.
Discover(key) ==
    /\ d_pc = "idle"
    /\ api_key' = key
    /\ IF no_api_key(key)
       THEN /\ DiscoveryReturns(<< >>)
            /\ UNCHANGED requests
       ELSE /\ d_pc' = "geocode"
            /\ requests' = [requests EXCEPT !.geocode = @ + 1]
            /\ UNCHANGED << d_ret, http >>
    /\ UNCHANGED << geocode_status, nearby_found, text_found, text_q, breweries_found,
                    top_breweries, d_idx, detail_log >>
    /\ UNCHANGED discovery_frame

\* The geocoding request ends: without coordinates the call returns [], with
\* coordinates the nearby search is issued.
GeocodeResponse(status) ==
    /\ d_pc = "geocode"
    /\ geocode_status' = status
    /\ IF geocode_unresolved(status)
       THEN /\ DiscoveryReturns(<< >>)
            /\ UNCHANGED requests
       ELSE /\ d_pc' = "nearby"
            /\ requests' = [requests EXCEPT !.nearby = @ + 1]
            /\ UNCHANGED << d_ret, http >>
    /\ UNCHANGED << api_key, nearby_found, text_found, text_q, breweries_found,
                    top_breweries, d_idx, detail_log >>
    /\ UNCHANGED discovery_frame

\* The nearby search ends: an exception reaches the except clause of
\* find_breweries_by_zipcode, which returns []; otherwise the first text
\* query is issued.
NearbyResponse(resp) ==
    /\ d_pc = "nearby"
    /\ IF resp.kind = "error"
       THEN /\ DiscoveryReturns(<< >>)
            /\ UNCHANGED << nearby_found, text_q, requests >>
       ELSE /\ nearby_found' = nearby_search_breweries(resp)
            /\ text_q' = 1
            /\ d_pc' = "text"
            /\ requests' = [requests EXCEPT !.text = @ + 1]
            /\ UNCHANGED << d_ret, http >>
    /\ UNCHANGED << api_key, geocode_status, text_found, breweries_found, top_breweries,
                    d_idx, detail_log >>
    /\ UNCHANGED discovery_frame

\* A text query ends: the next one is issued, or after the last one the
\* results are merged, sorted and truncated and the first detail lookup is
\* issued; without any brewery to look up the call returns.
TextResponse(resp) ==
    /\ d_pc = "text"
    /\ LET acc == text_query(text_found, resp)
       IN  /\ text_found' = acc
           /\ IF text_q < Len(TextSearchQueries)
              THEN /\ text_q' = text_q + 1
                   /\ requests' = [requests EXCEPT !.text = @ + 1]
                   /\ UNCHANGED << d_pc, breweries_found, top_breweries, d_idx, d_ret, http >>
              ELSE LET merged == merge_results(nearby_found, acc)
                       top    == top_of(sort_by_distance(merged))
                       j      == next_lookup(top, 0)
                   IN  /\ breweries_found' = merged
                       /\ top_breweries' = top
                       /\ d_idx' = j
                       /\ text_q' = text_q
                       /\ IF j = 0
                          THEN /\ DiscoveryReturns(top)
                               /\ UNCHANGED requests
                          ELSE /\ d_pc' = "details"
                               /\ requests' = [requests EXCEPT !.details = @ + 1]
                               /\ UNCHANGED << d_ret, http >>
    /\ UNCHANGED << api_key, geocode_status, nearby_found, detail_log >>
    /\ UNCHANGED discovery_frame

\* A detail lookup ends: a result sets the website (None when the result
\* has none), a failure leaves the brewery as it is; the next lookup is
\* issued, or the call returns the list.
DetailResponse(out) ==
    /\ d_pc = "details"
    /\ LET i   == d_idx
           id  == top_breweries[i].place_id[1]
           top == IF out = "site"
                  THEN [top_breweries EXCEPT ![i].website = Some(Url(id))]
                  ELSE top_breweries
           j   == next_lookup(top, i)
       IN  /\ out \in DetailOutcomes(id)
           /\ top_breweries' = top
           /\ detail_log' = Append(detail_log, [place_id |-> id, outcome |-> out])
           /\ d_idx' = j
           /\ IF j = 0
              THEN /\ DiscoveryReturns(top)
                   /\ UNCHANGED requests
              ELSE /\ requests' = [requests EXCEPT !.details = @ + 1]
                   /\ UNCHANGED << d_pc, d_ret, http >>
    /\ UNCHANGED << api_key, geocode_status, nearby_found, text_found, text_q,
                    breweries_found >>
    /\ UNCHANGED discovery_frame

NextDiscovery ==
    \/ \E key \in { None, Some("key") } : Discover(key)
    \/ \E status \in GeocodeStatuses : GeocodeResponse(status)
    \/ \E resp \in NearbyResponses : NearbyResponse(resp)
    \/ \E resp \in TextResponses : TextResponse(resp)
    \/ \E out \in { "site", "none", "fail" } : DetailResponse(out)

DiscoverySpec == Init /\ [][NextDiscovery]_vars

\* ------------------------------------- detail cache and cache management
\* The detail cache (cached_breweries table), cleanup_expired_cache and the
\* cache-management endpoints of the API, next to the search cache.

\* What the steps of this part leave alone.
maint_frame == << cache_hist, orch_vars, alias_vars, disc_vars, parse_vars, agent_vars >>

\* timedelta(days=7) of cleanup_expired_cache, in hours.
retention_hours == 7 * 24

\* The instants at which the clock is looked at: the start, one ttl and
\* one hour more after it, one retention horizon after the ttl.
Times ==
    { 0, cache_ttl_hours, cache_ttl_hours + 1, retention_hours + cache_ttl_hours }

\* Google place ids of the breweries whose details are cached.
PlaceIds == { << "place", 1 >>, << "place", 2 >> }

AllDetailBreweries ==
    { Brewery(BreweryName(1), Some(Url(1)), << >>, Some(Stamp)),
      Brewery(BreweryName(1), Some(Url(1)),
              << Beer("Beta Tested", "Czech-Style Pils", 51) >>, Some(Stamp)) }

\* Breweries handed to cache_brewery, without and with beers: place ids
\* being interchangeable, the second is given the brewery with beers only.
DetailBreweries(id) ==
    IF id = << "place", 1 >> THEN AllDetailBreweries
    ELSE { b \in AllDetailBreweries : b.beers # << >> }

AllMaintBatches ==
    { << Brewery(BreweryName(1), None, << >>, Some(Stamp)) >>,
      << Brewery(BreweryName(2), Some(Url(2)),
                 << Beer("Beta Tested", "Czech-Style Pils", 51) >>, Some(Stamp)) >> }

\* Brewery lists handed to cache_search_results here: keys being
\* interchangeable, the second key is given one of the lists only.
MaintBatches(k) ==
    IF k = <<"94556", 15>> THEN AllMaintBatches
    ELSE { << Brewery(BreweryName(1), None, << >>, Some(Stamp)) >> }

\* _serialize_beers: one dictionary per beer.
serialize_beers(beers) ==
    [i \in 1..Len(beers) |->
        [name |-> beers[i].name, style |-> beers[i].style, abv |-> beers[i].abv]]

\* _deserialize_beers: one Beer per dictionary.
deserialize_beers(data) ==
    [i \in 1..Len(data) |-> Beer(data[i].name, data[i].style, data[i].abv)]

\* (variant for C24: the tap list is stamped whether or not beers are attached)
tap_list_updated_always(brewery, t) == Some(t)

\* tap_list_updated=datetime.utcnow() if brewery.beers else None.
tap_list_updated(brewery, t) == IF brewery.beers # << >> THEN Some(t) ELSE None

\* The CachedBrewery row cache_brewery builds at time t: last_updated is
\* not passed and takes the column default, utcnow at the insert.
CachedBrewery(id, brewery, t) ==
    [id |-> id, name |-> brewery.name, website |-> brewery.website,
     tap_list |-> IF brewery.beers # << >>
                  THEN Some(serialize_beers(brewery.beers)) ELSE None,
     tap_list_updated |-> tap_list_updated(brewery, t),
     last_updated |-> t]

\* cache_brewery(brewery, place_id) at time t; dbFails: the durable store
\* raises before the commit and the transaction is rolled back.
cache_brewery(details, brewery, id, t, dbFails) ==
    IF dbFails
    THEN [details |-> details, ok |-> FALSE]
    ELSE [details |-> { r \in details : r.id # id } \cup { CachedBrewery(id, brewery, t) },
          ok |-> TRUE]

\* datetime.utcnow() - last_updated < timedelta(hours=cache_ttl_hours).
detail_fresh(t, last_updated) == t - last_updated < cache_ttl_hours

\* _cached_brewery_to_brewery: a Brewery from the row, with the beers of the
\* tap list if there is one; last_updated of the Brewery is not set.
cached_brewery_to_brewery(row) ==
    Brewery(row.name, row.website,
            IF row.tap_list # None THEN deserialize_beers(row.tap_list[1]) ELSE << >>,
            None)

\* get_cached_brewery(place_id) at time t; dbFails: the query raises and
\* None is returned.
get_cached_brewery(details, id, t, dbFails) ==
    LET found == { r \in details : r.id = id }
    IN  IF dbFails \/ found = {}
        THEN None
        ELSE LET cached_brewery == CHOOSE r \in found : TRUE
             IN  IF detail_fresh(t, cached_brewery.last_updated)
                 THEN Some(cached_brewery_to_brewery(cached_brewery))
                 ELSE None

\* (variant for C29: the cleanup also removes the search rows that expire
\* within the next ttl)
search_expired_ahead(t, expires_at) == expires_at < t + cache_ttl_hours

\* BrewerySearchCache.expires_at < datetime.utcnow(): the cleanup's filter.
search_expired(t, expires_at) == expires_at < t

\* (variant for C21: the detail rows are dropped when they are older than
\* the ttl)
detail_too_old_by_ttl(t, last_updated) == last_updated < t - cache_ttl_hours

\* CachedBrewery.last_updated < old_threshold, old_threshold being seven
\* days before now.
detail_too_old(t, last_updated) == last_updated < t - retention_hours

\* cleanup_expired_cache() at time t: the rows of both tables after it, the
\* two counts it logs and the value it returns (the function has no return
\* statement); dbFails: the durable store raises and the transaction is
\* rolled back.  The in-memory dictionary is not read or written.
cleanup_expired_cache(rows, details, t, dbFails) ==
    LET expired_searches  == { r \in rows : search_expired(t, r.expires_at) }
        expired_breweries == { r \in details : detail_too_old(t, r.last_updated) }
    IN  IF dbFails
        THEN [rows |-> rows, details |-> details, ok |-> FALSE,
              logged |-> None, returns |-> None]
        ELSE [rows |-> rows \ expired_searches,
              details |-> details \ expired_breweries, ok |-> TRUE,
              logged |-> Some([searches |-> Cardinality(expired_searches),
                               breweries |-> Cardinality(expired_breweries)]),
              returns |-> None]

\* get_cache_stats() at time t: the counts, or the empty dictionary when the
\* durable store raises.
get_cache_stats(mem, rows, details, t, dbFails) ==
    IF dbFails
    THEN None
    ELSE Some([total_search_cache_entries |-> Cardinality(rows),
               valid_search_cache_entries |->
                   Cardinality({ r \in rows : r.expires_at > t }),
               total_brewery_cache_entries |-> Cardinality(details),
               recent_brewery_cache_entries |->
                   Cardinality({ r \in details : r.last_updated > t - cache_ttl_hours }),
               in_memory_cache_size |-> Cardinality(DOMAIN mem)])

\* The public methods BreweryCacheService defines.
ServiceMethods ==
    { "get_cached_search", "cache_search_results", "get_cached_brewery", "cache_brewery",
      "cleanup_expired_cache", "get_cache_stats" }

\* The method of the cache service each cache-management endpoint calls.
EndpointMethod ==
    [get_cache_stats |-> "get_cache_stats",
     cleanup_cache |-> "cleanup_expired_cache",
     clear_cache_for_zipcode |-> "clear_cache_for_zipcode",
     clear_all_cache |-> "clear_all_cache"]

\* The status an endpoint answers with: looking up a method the service does
\* not define raises AttributeError inside the endpoint's try, and its except
\* clause answers 500; otherwise the endpoint returns normally.
endpoint_status(endpoint) ==
    IF EndpointMethod[endpoint] \in ServiceMethods THEN 200 ELSE 500

\* The clock is looked at again, later.
Elapse(t) ==
    /\ t \in Times
    /\ t > now
    /\ now' = t
    /\ UNCHANGED << in_memory_cache, db, maint_vars, maint_frame >>

\* The record of the latest call: what was called, for which key or place
\* id, whether the durable store let it through, what was passed or
\* returned, and what was logged.
MaintCall(op, key, ok, result, logged) ==
    [op |-> op, key |-> key, ok |-> ok, result |-> result, logged |-> logged]

\* A caller calls cache_search_results(zipcode, radius, breweries).
SearchPut(k, brs, dbFails) ==
    LET key == generate_cache_key(k[1], k[2])
        w   == cache_search_results(in_memory_cache, db, key, now, brs, dbFails)
    IN  /\ in_memory_cache' = w.mem
        /\ db' = w.rows
        /\ maint' = MaintCall("cache_search_results", key, w.ok, None, None)
        /\ UNCHANGED << now, detail_db, api_response, maint_frame >>

\* A caller calls get_cached_search(zipcode, radius).
SearchGet(k, dbFails) ==
    LET key == generate_cache_key(k[1], k[2])
        g   == get_cached_search(in_memory_cache, db, key, now, dbFails)
    IN  /\ in_memory_cache' = g.mem
        /\ maint' = MaintCall("get_cached_search", key, g.tier # "error", None, None)
        /\ UNCHANGED << now, db, detail_db, api_response, maint_frame >>

\* A caller calls cache_brewery(brewery, place_id).
DetailPut(id, brewery, dbFails) ==
    LET w == cache_brewery(detail_db, brewery, id, now, dbFails)
    IN  /\ detail_db' = w.details
        /\ maint' = MaintCall("cache_brewery", id, w.ok, Some(brewery), None)
        /\ UNCHANGED << now, in_memory_cache, db, api_response, maint_frame >>

\* A caller calls get_cached_brewery(place_id).
DetailGet(id, dbFails) ==
    /\ maint' = MaintCall("get_cached_brewery", id, ~dbFails,
                          get_cached_brewery(detail_db, id, now, dbFails), None)
    /\ UNCHANGED << now, in_memory_cache, db, detail_db, api_response, maint_frame >>

\* cleanup_expired_cache() runs.
CleanupRuns(dbFails) ==
    LET c == cleanup_expired_cache(db, detail_db, now, dbFails)
    IN  /\ db' = c.rows
        /\ detail_db' = c.details
        /\ maint' = MaintCall("cleanup_expired_cache", << >>, c.ok, c.returns, c.logged)
        /\ UNCHANGED << now, in_memory_cache, maint_frame >>

\* A caller calls cleanup_expired_cache().
Cleanup(dbFails) ==
    /\ CleanupRuns(dbFails)
    /\ UNCHANGED api_response

NextMaintenance ==
    \/ \E t \in Times : Elapse(t)
    \/ \E k \in Keys, f \in BOOLEAN : \E b \in MaintBatches(k) : SearchPut(k, b, f)
    \/ \E k \in Keys, f \in BOOLEAN : SearchGet(k, f)
    \/ \E id \in PlaceIds, f \in BOOLEAN : \E b \in DetailBreweries(id) : DetailPut(id, b, f)
    \/ \E id \in PlaceIds, f \in BOOLEAN : DetailGet(id, f)
    \/ \E f \in BOOLEAN : Cleanup(f)

MaintenanceSpec == Init /\ [][NextMaintenance]_vars

\* The answer of an endpoint.
Response(endpoint, statistics) ==
    [endpoint |-> endpoint, status |-> endpoint_status(endpoint),
     statistics |-> statistics, details |-> None]

\* GET /cache/stats.
GetCacheStats(dbFails) ==
    /\ api_response' = Response("get_cache_stats",
                                get_cache_stats(in_memory_cache, db, detail_db,
                                                now, dbFails))
    /\ maint' = MaintCall("get_cache_stats", << >>, ~dbFails, None, None)
    /\ UNCHANGED << now, in_memory_cache, db, detail_db, maint_frame >>

\* POST /cache/cleanup: cleanup_expired_cache() is called, what it returns
\* is dropped and a fixed message is answered.
CleanupCache(dbFails) ==
    /\ CleanupRuns(dbFails)
    /\ api_response' = Response("cleanup_cache", None)

\* DELETE /cache/clear/{zipcode}: the service object has no attribute
\* clear_cache_for_zipcode, nothing of the cache is reached.
ClearCacheForZipcode(k) ==
    /\ api_response' = Response("clear_cache_for_zipcode", None)
    /\ maint' = MaintCall("clear_cache_for_zipcode", generate_cache_key(k[1], k[2]),
                          FALSE, None, None)
    /\ UNCHANGED << now, in_memory_cache, db, detail_db, maint_frame >>

\* DELETE /cache/clear: the service object has no attribute clear_all_cache.
ClearAllCache ==
    /\ api_response' = Response("clear_all_cache", None)
    /\ maint' = MaintCall("clear_all_cache", << >>, FALSE, None, None)
    /\ UNCHANGED << now, in_memory_cache, db, detail_db, maint_frame >>

\* The cache-management endpoints over a cache that is being filled.
NextApi ==
    \/ \E t \in Times : Elapse(t)
    \/ \E k \in Keys : \E b \in MaintBatches(<<"94102", 15>>) : SearchPut(k, b, FALSE)
    \/ \E id \in PlaceIds : \E b \in DetailBreweries(<< "place", 2 >>) :
          DetailPut(id, b, FALSE)
    \/ \E f \in BOOLEAN : GetCacheStats(f)
    \/ \E f \in BOOLEAN : CleanupCache(f)
    \/ \E k \in Keys : ClearCacheForZipcode(k)
    \/ ClearAllCache

ApiSpec == Init /\ [][NextApi]_vars

\* -------------------------------------------------- parsing a fetched page
\* One _parse_tap_list_from_html(html, base_url) call.  The page is given by
\* what each extraction stage finds in it.

\* What the steps of this part leave alone.
parse_frame == << cache_vars, orch_vars, alias_vars, disc_vars, maint_vars, agent_vars >>

\* Number of entries of beer_selectors.
NumSelectors == 11
\* unique_beers[:20].
MaxBeers == 20
\* Length of the longest candidate list a stage finds.
MaxCandidates == 21

\* A beer name: its words in lower case, and how the text is written
\* ("lower", "Title", "UPPER", or "padded": with surrounding whitespace).
BeerName(words, form) == [words |-> words, form |-> form]

\* A Beer as the extraction builds it; abv in hundredths of a percent.
ScrapedBeer(name, abv, ibu) == [name |-> name, abv |-> abv, ibu |-> ibu]

\* len(name): the letters, one space between words, and the padding.
RECURSIVE Letters(_)
Letters(words) ==
    IF words = << >> THEN 0 ELSE Len(Head(words)) + Letters(Tail(words))

NameLen(name) ==
    Letters(name.words) + (IF Len(name.words) > 1 THEN Len(name.words) - 1 ELSE 0)
        + (IF name.form = "padded" THEN 2 ELSE 0)

\* (variant for C26: names are compared as they are written)
lower_strip_as_written(name) == name

\* name.lower().strip().
lower_strip(name) == BeerName(name.words, "lower")

\* name.lower().
lower(name) == BeerName(name.words, IF name.form = "padded" THEN "padded" ELSE "lower")

\* The nav_items of _is_navigation_item.
nav_items ==
    { << w >> : w \in { "danville", "moraga", "calendar", "menu", "contact", "about",
                        "brunch", "dinner", "drinks", "lunch", "reservations", "shop",
                        "locations", "beer", "home", "events", "hours", "directions",
                        "newsletter", "yes", "no" } }
    \cup { << "make", "a", "reservation" >>, << "sign", "up" >>, << "privacy", "policy" >>,
           << "terms", "of", "use" >>, << "beer", "responsibly" >>, << "over", "18" >> }

\* word sequence part occurs in the word sequence whole.
Occurs(part, whole) ==
    \E i \in 0..(Len(whole) - Len(part)) :
        \A j \in 1..Len(part) : whole[i + j] = part[j]

\* _is_navigation_item(text): an exact match of the lowered, stripped text
\* with a navigation item, or one of the two navigation phrases inside it.
is_navigation_item(name) ==
    \/ lower_strip(name).words \in nav_items
    \/ \E nav \in { << "brunch", "dinner", "drinks" >>, << "drinks", "dinner", "lunch" >> } :
          Occurs(nav, lower_strip(name).words)

\* The non_beer_words of _is_valid_beer (looked for inside the lowered name;
\* here: as whole words).
non_beer_words ==
    { << w >> : w \in { "food", "menu", "hours", "contact", "location", "phone",
                        "address", "about" } }
    \cup { << "fresh", "pours" >>, << "tasty", "bites" >>, << "friendly", "faces" >>,
           << "expect", "variety" >>, << "expect", "quality" >> }

\* The name checks of _is_valid_beer: lines 938-949 and 959-961.
name_checks(name) ==
    /\ name.words # << >>
    /\ NameLen(name) >= 3
    /\ ~ is_navigation_item(name)
    /\ ~ \E word \in non_beer_words : Occurs(word, lower(name).words)
    /\ lower_strip(name).words \notin
          { << w >> : w \in { "1", "2", "3", "4", "5", "yes", "no", "send" } }

\* (variant for C25: the bounds themselves are rejected)
is_valid_beer_exclusive(beer) ==
    /\ name_checks(beer.name)
    /\ ~ (beer.abv # None /\ (beer.abv[1] <= 50 \/ beer.abv[1] >= 2000))
    /\ ~ (beer.ibu # None /\ (beer.ibu[1] <= 0 \/ beer.ibu[1] >= 150))

\* _is_valid_beer(beer).
is_valid_beer(beer) ==
    /\ name_checks(beer.name)
    /\ ~ (beer.abv # None /\ (beer.abv[1] < 50 \/ beer.abv[1] > 2000))
    /\ ~ (beer.ibu # None /\ (beer.ibu[1] < 0 \/ beer.ibu[1] > 150))

\* The valid beers of a list of candidates, in order.
RECURSIVE valid_of(_)
valid_of(found) ==
    IF found = << >> THEN << >>
    ELSE (IF is_valid_beer(Head(found)) THEN << Head(found) >> ELSE << >>)
         \o valid_of(Tail(found))

\* if beers: break -- beers being everything found so far.
selector_loop_ends(all_beers, yielded) == all_beers # << >>

\* The loop of lines 639-647: a beer is kept when its lowered, stripped name
\* was not seen, has three characters or more and is no navigation item.
RECURSIVE unique_beers(_, _)
unique_beers(list, seen_names) ==
    IF list = << >> THEN << >>
    ELSE LET beer            == Head(list)
             beer_name_clean == lower_strip(beer.name)
         IN  IF /\ beer_name_clean \notin seen_names
                /\ NameLen(beer_name_clean) >= 3
                /\ ~ is_navigation_item(beer.name)
             THEN << beer >> \o unique_beers(Tail(list), seen_names \cup { beer_name_clean })
             ELSE unique_beers(Tail(list), seen_names)

\* unique_beers[:20].
limit(list) == SubSeq(list, 1, IF Len(list) < MaxBeers THEN Len(list) ELSE MaxBeers)

\* Names and numbers the pages hold.
Hazy == << "hazy", "ipa" >>
NameSamples ==
    { BeerName(Hazy, "Title"),
      BeerName(<< "ok" >>, "lower"), BeerName(<< "x" >>, "padded"),
      BeerName(<< "menu" >>, "UPPER"), BeerName(<< "lunch", "menu" >>, "Title"),
      BeerName(<< "send" >>, "Title") }
AbvSamples == { None, Some(49), Some(50), Some(2000), Some(2001) }
IbuSamples == { None, Some(-1), Some(0), Some(150), Some(151) }

\* A list of n beers with names of their own.
Bulk(n) == [i \in 1..n |-> ScrapedBeer(BeerName(<< "tap", "no", ToString(i) >>, "Title"),
                                        Some(510), None)]

\* What an element, a section or a pattern of the page can give.
Singles ==
    { << ScrapedBeer(n, a, i) >> : n \in NameSamples, a \in AbvSamples, i \in IbuSamples }
Mixed ==
    { << ScrapedBeer(BeerName(Hazy, "Title"), Some(510), None),
         ScrapedBeer(BeerName(<< "pale", "ale" >>, "Title"), None, Some(40)),
         ScrapedBeer(BeerName(Hazy, "UPPER"), Some(640), None),
         ScrapedBeer(BeerName(Hazy, "padded"), None, None) >>,
      << ScrapedBeer(BeerName(<< "menu" >>, "UPPER"), None, None) >>,
      << ScrapedBeer(BeerName(Hazy, "padded"), Some(2001), None) >> }
\* The four beers _extract_canyon_club_beers knows (two of them here): they
\* are not validated.
CanyonBeers ==
    << ScrapedBeer(BeerName(<< "beta", "tested" >>, "Title"), Some(510), None),
       ScrapedBeer(BeerName(<< "solid", "ipa" >>, "Title"), Some(630), None) >>

\* _parse_tap_list_from_html(html, base_url) is called.
Parse(url) ==
    /\ parse_pc = "idle"
    /\ parse_pc' = "sections"
    /\ base_url' = url
    /\ UNCHANGED << parse_beers, selector, selector_log, before_loop, text_used, checked,
                    parse_ret >>
    /\ UNCHANGED parse_frame

\* Lines 592-598: the beers _extract_beers_from_section makes of the
\* headings of the beer sections (it keeps the valid ones).
Sections(found) ==
    /\ parse_pc = "sections"
    /\ parse_beers' = parse_beers \o valid_of(found)
    /\ parse_pc' = "containers"
    /\ UNCHANGED << base_url, selector, selector_log, before_loop, text_used, checked,
                    parse_ret >>
    /\ UNCHANGED parse_frame

\* Lines 600-605: the elements holding "n.n % abv", one beer of each, kept
\* if valid.
Containers(found) ==
    /\ parse_pc = "containers"
    /\ parse_beers' = parse_beers \o valid_of(found)
    /\ before_loop' = Len(parse_beers')
    /\ checked' = IF found = << >> THEN checked
                  ELSE Some([beer |-> found[Len(found)],
                             valid |-> is_valid_beer(found[Len(found)])])
    /\ selector' = 1
    /\ parse_pc' = "selectors"
    /\ UNCHANGED << base_url, selector_log, text_used, parse_ret >>
    /\ UNCHANGED parse_frame

\* Lines 618-626: one round of the loop over beer_selectors; found: the beers
\* of the elements the selector matches.
Selector(found) ==
    /\ parse_pc = "selectors"
    /\ LET yielded == valid_of(found)
           all     == parse_beers \o yielded
       IN  /\ parse_beers' = all
           /\ selector_log' = Append(selector_log, Len(yielded))
           /\ IF selector_loop_ends(all, yielded) \/ selector = NumSelectors
              THEN /\ parse_pc' = "text"
                   /\ selector' = selector
              ELSE /\ parse_pc' = "selectors"
                   /\ selector' = selector + 1
    /\ UNCHANGED << base_url, before_loop, text_used, checked, parse_ret >>
    /\ UNCHANGED parse_frame

\* Lines 628-649: the text patterns if nothing was found, the Canyon Club
\* extraction if the address is theirs, then the clean-up and the cap.
\* found: what _extract_beers_from_text_enhanced would make of the text
\* (it keeps the valid ones); canyon: what _extract_canyon_club_beers finds.
Finish(found, canyon) ==
    /\ parse_pc = "text"
    /\ LET fallback == parse_beers = << >>
           beers1   == IF fallback THEN valid_of(found) ELSE parse_beers
           beers2   == IF base_url = "canyonclub.works" /\ canyon # << >>
                       THEN canyon ELSE beers1
       IN  /\ text_used' = fallback
           /\ parse_beers' = beers2
           /\ parse_ret' = Some(limit(unique_beers(beers2, {})))
    /\ parse_pc' = "done"
    /\ UNCHANGED << base_url, selector, selector_log, before_loop, checked >>
    /\ UNCHANGED parse_frame

NextParse ==
    \/ \E url \in { "canyonclub.works", "other" } : Parse(url)
    \/ \E found \in { << >> } \cup Mixed : Sections(found)
    \/ \E found \in { << >> } \cup Singles : Containers(found)
    \/ \E found \in { << >> } \cup Mixed \cup { Bulk(MaxCandidates) } : Selector(found)
    \/ \E found \in { << >> } \cup Mixed \cup { Bulk(MaxCandidates) },
          canyon \in { << >>, CanyonBeers } : Finish(found, canyon)

ParseSpec == Init /\ [][NextParse]_vars

\* ------------------------------------------- the signatures of the scraper
\* The User-Agent header of the requests one BreweryWebScraper sends, over
\* the scrape_brewery_tap_list calls made on it.

\* What the steps of this part leave alone.
agent_frame == << cache_vars, orch_vars, alias_vars, disc_vars, maint_vars, parse_vars >>

\* self.user_agents, in order (Python indexes it from 0).
user_agents ==
    << "Chrome/120 Windows", "Chrome/120 Macintosh", "Firefox/121 Windows",
       "Safari/17.2 Macintosh", "Chrome/120 Linux" >>

\* The User-Agent _scrape_with_alternative_endpoints writes into its headers.
alternative_user_agent == "BrewBot/1.0"

\* _rotate_user_agent: the index after the rotation.
rotate_user_agent(index) == (index + 1) % Len(user_agents)

\* The User-Agent of the session headers after _update_headers.
session_user_agent(index) == user_agents[index + 1]

\* The request of an attempt went out with User-Agent ua.
Sends(ua) ==
    /\ sent' = Some(ua)
    /\ sent_before' = sent

\* scrape_brewery_tap_list is called for a brewery with a website.
ScrapeCalled ==
    /\ attempt.strategy = 0
    /\ attempt' = [strategy |-> 1, variant |-> 0, requests |-> 0]
    /\ UNCHANGED << current_user_agent_index, sent, sent_before >>
    /\ UNCHANGED agent_frame

\* _scrape_with_aiohttp: the rotation, then the request with the headers of
\* the session; beers: the strategy returned a non-empty list.
AiohttpAttempt(got_beers) ==
    /\ attempt.strategy = 1
    /\ current_user_agent_index' = rotate_user_agent(current_user_agent_index)
    /\ Sends(session_user_agent(current_user_agent_index'))
    /\ attempt' = [strategy |-> IF got_beers THEN 0 ELSE 2, variant |-> 0,
                   requests |-> attempt.requests + 1]
    /\ UNCHANGED agent_frame

\* _scrape_with_requests: the rotation, then the request with a copy of the
\* headers of the session.
RequestsAttempt(got_beers) ==
    /\ attempt.strategy = 2
    /\ current_user_agent_index' = rotate_user_agent(current_user_agent_index)
    /\ Sends(session_user_agent(current_user_agent_index'))
    /\ attempt' = [strategy |-> IF got_beers THEN 0 ELSE 3, variant |-> 1,
                   requests |-> attempt.requests + 1]
    /\ UNCHANGED agent_frame

\* _scrape_with_alternative_endpoints: the request of one url variation,
\* with headers of its own and no rotation.
AlternativeAttempt(got_beers) ==
    /\ attempt.strategy = 3
    /\ Sends(alternative_user_agent)
    /\ attempt' = IF got_beers \/ attempt.variant = NumUrlVariations
                  THEN [strategy |-> 0, variant |-> 0, requests |-> attempt.requests + 1]
                  ELSE [strategy |-> 3, variant |-> attempt.variant + 1,
                        requests |-> attempt.requests + 1]
    /\ UNCHANGED current_user_agent_index
    /\ UNCHANGED agent_frame

NextAgent ==
    \/ ScrapeCalled
    \/ \E b \in BOOLEAN : AiohttpAttempt(b)
    \/ \E b \in BOOLEAN : RequestsAttempt(b)
    \/ \E b \in BOOLEAN : AlternativeAttempt(b)

AgentSpec == Init /\ [][NextAgent]_vars

\* ------------------------------------------- one acquisition, run to its end
\* The acquisition whose run is followed.
Caller == "p1"

\* Lengths of the ranked candidate list discovery ends with: none, one, and
\* more than the cap.
CandidateCounts == { 0, 1, MaxBulk }

\* The number of breweries find_breweries_by_zipcode hands to the scrape
\* loop for m ranked candidates: breweries_found[:15].
found_count(m) == Len(top_of(BulkList(m)))

\* Whether the detail lookup of brewery i gives a website: either for the
\* first breweries, every fifth without one for the later ones.
SitesAt(i) == IF i <= MaxBreweries THEN BOOLEAN ELSE { i % 5 # 0 }

\* What the fetches for brewery i produce: anything for the first
\* breweries; for the later ones a transport error, a non-200 status, or a
\* page with beers, by position.
ResponsesAt(i) ==
    IF i <= MaxBreweries THEN Responses
    ELSE IF i % 3 = 0 THEN { [kind |-> "error", beers |-> << >>] }
    ELSE IF i % 3 = 1 THEN { [kind |-> "status", beers |-> << >>] }
    ELSE { [kind |-> "page", beers |-> t] : t \in TapLists }

\* The steps of the acquisition after its entry: each is a network call or
\* a sleep that comes back.
Returns ==
    \/ \E found \in BOOLEAN, f \in BOOLEAN : Geocode(Caller, found, f)
    \/ \E m \in CandidateCounts, f \in BOOLEAN : Search(Caller, found_count(m), f)
    \/ \E hasSite \in SitesAt(idx[Caller]) : DetailLookup(Caller, hasSite)
    \/ \E r \in ResponsesAt(idx[Caller]) : AiohttpDone(Caller, r)
    \/ \E r \in ResponsesAt(idx[Caller]) : RequestsDone(Caller, r)
    \/ \E r \in ResponsesAt(idx[Caller]) : AlternativeDone(Caller, r)
    \/ \E f \in BOOLEAN : DelayDone(Caller, f)

NextRun ==
    \/ \E k \in Asks(Caller), f \in BOOLEAN : Start(Caller, k, f)
    \/ Returns

RunSpec == Init /\ [][NextRun]_vars

\* Every network call returns or times out and every sleep ends: a step
\* that can be taken is taken.
FairRunSpec == RunSpec /\ WF_vars(Returns)

\* ====================================================================== claims
WritesBy(p) == { j \in 1..Len(write_log) : write_log[j].proc = p }
Prefix(n) == [j \in 1..n |-> j]
Current(p) == breweries[p][idx[p]]
Scraping(p) == pc[p] \in {"strategy", "delay"}

\* C1 (as stated): a call that starts after a call for the same key has
\* completed, while the key's cache entry is there and not expired, is served
\* from the cache: it makes no discovery request and no scrape call.
C1_SecondCallFromCache ==
    \A p \in Procs :
        prior[p] => pc[p] = "done" /\ calls[p].discovery = 0 /\ calls[p].scrape = 0

\* C3: when a fresh acquisition has returned, the returned list holds every
\* discovered brewery in discovery order, every one of them was scraped, once
\* and in that order, a brewery all of whose strategies failed has beers = [],
\* every brewery carries the result of its own scrape, and
\* cache_search_results was called with the whole batch.
C3_FaultIsolation ==
    \A p \in Procs :
        (pc[p] = "done" /\ calls[p].discovery > 0) =>
            LET r == ret[p][1]
                n == Len(discovered[p])
            IN  /\ Len(r) = n
                /\ WritesBy(p) # {}
                /\ Len(scrape_log[p]) = n
                /\ \A i \in 1..n :
                      /\ r[i].name = discovered[p][i]
                      /\ scrape_log[p][i].name = discovered[p][i]
                      /\ scrape_log[p][i].all_failed => r[i].beers = << >>
                      /\ r[i].beers = scrape_log[p][i].value
                /\ \A j \in WritesBy(p) :
                      /\ write_log[j].total = n
                      /\ write_log[j].data = serialize_breweries(r)

\* C3 witness: a returned batch of two breweries whose first had all three
\* strategies fail and whose second has beers, written to the cache.
C3_Witness ==
    \E p \in Procs :
        /\ pc[p] = "done" /\ Len(scrape_log[p]) = 2
        /\ scrape_log[p][1].all_failed
        /\ ret[p][1][1].beers = << >>
        /\ ret[p][1][2].beers # << >>
        /\ \E j \in WritesBy(p) : write_log[j].ok

\* C4: within one scrape call for a brewery with a website the strategies
\* are invoked in the order 1, 2, 3, none twice; a strategy is invoked only
\* when every earlier one has finished with nothing, so at most one is in
\* flight; and the call returns the first non-empty list, invoking no later
\* strategy.
C4_StrategyChain ==
    \A p \in Procs :
        (Scraping(p) /\ Current(p).website # None) =>
            LET k == Len(invoked[p])
            IN  /\ k \in 1..Len(Strategies)
                /\ invoked[p] = Prefix(k)
                /\ Cardinality(inflight[p]) <= 1
                /\ \A j \in 1..Len(returns[p]) : j < k => returns[p][j] = << >>
                /\ pc[p] = "strategy" =>
                      /\ inflight[p] = { invoked[p][k] }
                      /\ Len(returns[p]) = k - 1
                /\ pc[p] = "delay" =>
                      /\ inflight[p] = {}
                      /\ Len(returns[p]) = k
                      /\ Current(p).beers = returns[p][k]
                      /\ returns[p][k] = << >> => k = Len(Strategies)

\* C4 witness: a scrape call that returned the beers of strategy 2 after
\* strategy 1 had failed, without invoking strategy 3.
C4_Witness ==
    \E p \in Procs :
        /\ pc[p] = "delay" /\ invoked[p] = << 1, 2 >>
        /\ Current(p).beers # << >>

\* C5: a brewery without a website gets beers = [] and no strategy is
\* invoked and no request is issued for it.
C5_NoWebsiteNoRequest ==
    \A p \in Procs :
        (Scraping(p) /\ Current(p).website = None) =>
            /\ pc[p] = "delay"
            /\ Current(p).beers = << >>
            /\ invoked[p] = << >>
            /\ inflight[p] = {}
            /\ fetches[p] = 0

\* C5 witness: the scrape call of a brewery without a website has returned.
C5_Witness ==
    \E p \in Procs :
        /\ pc[p] = "delay" /\ Current(p).website = None
        /\ calls[p].scrape > 0

OkWrites(k) == { j \in 1..Len(write_log) : write_log[j].key = k /\ write_log[j].ok }
LastOk(k) == write_log[CHOOSE j \in OkWrites(k) : \A i \in OkWrites(k) : i <= j]

\* C8: whatever acquisitions overlapped, a key that was written holds one
\* entry in each tier, and it is the batch of the acquisition that wrote
\* last.
C8_LastWriterWins ==
    \A k \in Keys :
        OkWrites(k) # {} =>
            LET w == LastOk(k)
                e == w.at + cache_ttl_hours
            IN  /\ EntryOf(in_memory_cache, k) = Some([data |-> w.data, expires_at |-> e])
                /\ RowsOf(db, k) = { Row(k, w.data, e) }
                /\ Cardinality(RowsOf(db, k)) = 1

\* C8 witness: two acquisitions for one key both missed, both ran discovery
\* and scraping, both wrote the key, with different batches.
C8_Witness ==
    \E p, q \in Procs :
        /\ p # q /\ req[p] = req[q]
        /\ pc[p] = "done" /\ pc[q] = "done"
        /\ calls[p].scrape > 0 /\ calls[q].scrape > 0
        /\ \E i \in WritesBy(p), j \in WritesBy(q) :
              /\ i < j /\ write_log[i].ok /\ write_log[j].ok
              /\ write_log[i].data # write_log[j].data
              /\ write_log[i].data # << >>

\* C9 (as stated): while an acquisition is in a network phase, an acquisition
\* for another key that waits for its own response or delay can take its
\* next step.
C9_NoBlocking ==
    \A p, q \in Procs :
        (/\ p # q
         /\ pc[p] \in NetworkPhases
         /\ pc[q] \in AwaitPhases
         /\ req[p] # req[q])
        => ENABLED Steps(q, MaxBreweriesConcurrent)

\* C2: after a successful cache_search_results at time T, a
\* get_cached_search at time t that does not meet a durable-store error
\* returns the stored breweries when t < T + ttl and misses when
\* t >= T + ttl, from either tier.
C2_TTL ==
    (last_call.op = "get" /\ last_call.tier # "error"
        /\ stored[last_call.key] # None) =>
        LET st == stored[last_call.key][1]
        IN  IF last_call.at < st.at + cache_ttl_hours
            THEN /\ last_call.tier \in {"fast", "durable"}
                 /\ last_call.result =
                      Some(deserialize_breweries(serialize_breweries(st.breweries)))
            ELSE /\ last_call.tier = "miss"
                 /\ last_call.result = None

\* C2 witness: a read in the last hour before expiry that the durable tier
\* served.
C2_Witness ==
    /\ last_call.op = "get" /\ last_call.tier = "durable"
    /\ stored[last_call.key] # None
    /\ last_call.at = stored[last_call.key][1].at + cache_ttl_hours - 1

\* C10: get_cached_search serves a valid fast-tier entry without consulting
\* the durable tier, consults the durable tier otherwise, evicts an expired
\* fast-tier entry, and installs a durable hit in the fast tier with the
\* row's expires_at; a successful cache_search_results leaves the key with
\* the new payload and one expires_at in both tiers, in place of any
\* earlier entry.
C10_TwoTiers ==
    LET key == last_call.key
        at  == last_call.at
        hf  == last_call.had_fast
        validFast == hf # None /\ at < hf[1].expires_at
    IN  /\ last_call.op = "get" =>
              /\ validFast =>
                    /\ ~last_call.durable_read
                    /\ last_call.tier = "fast"
                    /\ last_call.result = Some(deserialize_breweries(hf[1].data))
                    /\ EntryOf(in_memory_cache, key) = hf
              /\ ~validFast => last_call.durable_read
              /\ last_call.tier = "durable" =>
                    \E r \in last_call.had_rows :
                        /\ r.expires_at > at
                        /\ EntryOf(in_memory_cache, key) =
                              Some([data |-> r.search_results, expires_at |-> r.expires_at])
                        /\ last_call.result = Some(deserialize_breweries(r.search_results))
              /\ last_call.tier \in {"miss", "error"} => key \notin DOMAIN in_memory_cache
        /\ (last_call.op = "put" /\ last_call.tier = "both") =>
              LET data == serialize_breweries(last_call.result[1])
                  e    == at + cache_ttl_hours
              IN  /\ EntryOf(in_memory_cache, key) = Some([data |-> data, expires_at |-> e])
                  /\ RowsOf(db, key) = { Row(key, data, e) }

\* C10 witness: a successful cache_search_results that replaced an earlier
\* entry of the key in both tiers.
C10_Witness ==
    /\ last_call.op = "put" /\ last_call.tier = "both"
    /\ last_call.had_fast # None
    /\ last_call.had_rows # {}
    /\ last_call.had_rows # RowsOf(db, last_call.key)

\* C11: a get_cached_search whose durable query raises returns a miss
\* (None) and leaves no fast-tier entry for the key; a cache_search_results
\* whose durable transaction raises leaves the fast-tier entry and the
\* durable rows of the key exactly as they were before the call.
C11_DurableFailure ==
    LET key == last_call.key
    IN  /\ (last_call.op = "get" /\ last_call.tier = "error") =>
              /\ last_call.result = None
              /\ last_call.durable_read
              /\ key \notin DOMAIN in_memory_cache
        /\ (last_call.op = "put" /\ last_call.tier = "error") =>
              /\ EntryOf(in_memory_cache, key) = last_call.had_fast
              /\ RowsOf(db, key) = last_call.had_rows

\* C11 witness: a cache_search_results that failed on a key cached in both
\* tiers, called with a payload other than the cached one.
C11_Witness ==
    /\ last_call.op = "put" /\ last_call.tier = "error"
    /\ last_call.had_fast # None
    /\ last_call.had_rows # {}
    /\ serialize_breweries(last_call.result[1]) # last_call.had_fast[1].data

\* C12: whatever the caller does to the list it passed to
\* cache_search_results or to a list, Brewery or Beer that get_cached_search
\* returned, the cached payload stays what was stored: no object of the
\* payload is reachable from a list the caller holds, and every later
\* get_cached_search returns the breweries that were stored.
C12_NoAliases ==
    /\ mem_ref # None =>
          /\ \A r \in held : Reach(heap, r) \cap Reach(heap, mem_ref[1]) = {}
          /\ ValueAt(heap, mem_ref[1]) = expected[1]
    /\ row_json = expected
    /\ last_get # None => last_get[1].value = deserialize_breweries(expected[1])

\* C12 witness: a get_cached_search that returned the stored breweries after
\* the caller had changed the list it had passed and a list an earlier
\* get_cached_search had returned.
C12_Witness ==
    /\ last_get # None
    /\ last_get[1].value # << >>
    /\ \E r \in passed : Reach(heap, r) \cap last_get[1].after # {}
    /\ \E r \in held \ passed : Reach(heap, r) \cap last_get[1].after # {}

\* C13 (as stated): deserializing the serialized form of a brewery list gives
\* the same breweries in the same order, each with every non-null field
\* (website, last_updated) and every beer equal to the original.
C13_RoundTrip ==
    last_call.op = "put" =>
        LET orig == last_call.result[1]
            back == deserialize_breweries(serialize_breweries(orig))
        IN  /\ Len(back) = Len(orig)
            /\ \A i \in 1..Len(orig) :
                  /\ back[i].name = orig[i].name
                  /\ back[i].beers = orig[i].beers
                  /\ orig[i].website # None => back[i].website = orig[i].website
                  /\ orig[i].last_updated # None =>
                        back[i].last_updated = orig[i].last_updated

\* C14 (as stated): the list find_breweries_by_zipcode returns holds no two
\* breweries whose names are equal ignoring case, and for a name that the
\* nearby search returned the brewery kept is a nearby-search record.
C14_NoDuplicateNames ==
    d_ret # None =>
        LET l == d_ret[1]
        IN  /\ \A i, j \in 1..Len(l) : i < j => Lower(l[i].name) # Lower(l[j].name)
            /\ \A i \in 1..Len(l) :
                  (\E k \in 1..Len(nearby_found) :
                       Lower(nearby_found[k].name) = Lower(l[i].name))
                  => \E k \in 1..Len(nearby_found) :
                         /\ nearby_found[k].name = l[i].name
                         /\ nearby_found[k].place_id = l[i].place_id

\* The position in the merged list of returned brewery b (enrichment only
\* sets its website).
MergePos(b) ==
    CHOOSE k \in 1..Len(breweries_found) : breweries_found[k] = [b EXCEPT !.website = None]

\* C15: in the list discovery returns the distance never decreases from one
\* brewery to the next, a brewery without coordinates comes after every
\* brewery with coordinates, and breweries at the same distance are in the
\* order in which the merge appended them.
C15_SortedByDistance ==
    (d_ret # None /\ d_ret[1] # << >>) =>
        LET l == d_ret[1]
        IN  \A i, j \in 1..Len(l) :
                i < j =>
                    /\ \E k \in 1..Len(breweries_found) :
                           breweries_found[k] = [l[i] EXCEPT !.website = None]
                    /\ ~DistLess(l[j].distance_miles, l[i].distance_miles)
                    /\ l[i].distance_miles = None => l[j].distance_miles = None
                    /\ l[i].distance_miles = l[j].distance_miles =>
                           MergePos(l[i]) < MergePos(l[j])

\* C15 witness: a returned list with two breweries at the same distance,
\* made from a merged list in which a brewery without coordinates stood
\* before one with coordinates.
C15_Witness ==
    /\ d_ret # None
    /\ \E i, j \in 1..Len(d_ret[1]) :
          /\ i < j
          /\ d_ret[1][i].distance_miles # None
          /\ d_ret[1][i].distance_miles = d_ret[1][j].distance_miles
    /\ \E i, j \in 1..Len(breweries_found) :
          /\ i < j
          /\ breweries_found[i].distance_miles = None
          /\ breweries_found[j].distance_miles # None

\* The breweries of list l that have a _place_id, in order.
HasPlaceId(b) == b.place_id # None
WithPlaceId(l) == SelectSeq(l, HasPlaceId)

\* C16: the list that is enriched and returned is the first 15 (or fewer)
\* of the sorted candidates; detail lookups are issued one at a time, for
\* the breweries of that list in order and for no other, so at most 15; a
\* lookup that failed leaves the website of its brewery unset, and every
\* brewery of the list with a place id has been looked up when discovery
\* returns.
C16_CapBeforeDetails ==
    (d_pc \in {"details", "returned"} /\ top_breweries # << >>) =>
        LET top    == top_breweries
            sorted == sort_by_distance(breweries_found)
            ids    == WithPlaceId(top)
            n      == Len(detail_log)
        IN  /\ Len(top) <= MaxTopBreweries
            /\ Len(top) = Len(sorted) \/ Len(top) = MaxTopBreweries
            /\ \A i \in 1..Len(top) : [top[i] EXCEPT !.website = None] = sorted[i]
            /\ requests.details <= MaxTopBreweries
            /\ requests.details = n + (IF d_pc = "details" THEN 1 ELSE 0)
            /\ n <= Len(ids)
            /\ \A k \in 1..n :
                  /\ detail_log[k].place_id = ids[k].place_id[1]
                  /\ detail_log[k].outcome = "fail" => ids[k].website = None
                  /\ detail_log[k].outcome = "site" => ids[k].website # None
            /\ d_pc = "details" => top[d_idx].place_id = ids[n + 1].place_id
            /\ d_pc = "returned" => n = Len(ids) /\ d_ret = Some(top)

\* C16 witness: discovery found more than 15 candidates and returned 15,
\* after a detail lookup that failed and a later one that gave a website.
C16_Witness ==
    /\ d_pc = "returned"
    /\ Len(breweries_found) > MaxTopBreweries
    /\ Len(d_ret[1]) = MaxTopBreweries
    /\ \E j, k \in 1..Len(detail_log) :
          /\ j < k
          /\ detail_log[j].outcome = "fail"
          /\ detail_log[k].outcome = "site"

\* What the caller of discovery, and the client of the search endpoint, get
\* when a search finds nothing.
NothingFound == [returned |-> Some(<< >>), http |-> Some(search_response(<< >>))]

\* C17 (as stated): when the provider answers the geocoding request with
\* REQUEST_DENIED, what the caller gets differs from what it gets for a
\* search that found nothing.
C17_DenialSurfaced ==
    (d_pc = "returned" /\ geocode_status = "REQUEST_DENIED") =>
        [returned |-> d_ret, http |-> http] # NothingFound

\* C18: a finder without API key returns the empty list and has issued no
\* geocoding, search or detail request; the search endpoint answers with
\* zero breweries.
C18_NoApiKey ==
    (d_pc # "idle" /\ api_key = None) =>
        /\ d_pc = "returned"
        /\ d_ret = Some(<< >>)
        /\ requests = [geocode |-> 0, nearby |-> 0, text |-> 0, details |-> 0]
        /\ http = Some([status |-> 200, total_breweries |-> 0])

\* C18 witness: a discovery call on a finder without API key has returned.
C18_Witness ==
    /\ d_pc = "returned"
    /\ api_key = None
    /\ d_ret # None

\* C19: when the geocoding request gives no coordinates (no results, a
\* denial, an exception) discovery returns the empty list after that one
\* request, without any nearby-search, text-search or detail request, and
\* the search endpoint answers 200 with zero breweries.
C19_UnresolvedPostalCode ==
    geocode_status \in { "ZERO_RESULTS", "REQUEST_DENIED", "error" } =>
        /\ d_pc = "returned"
        /\ d_ret = Some(<< >>)
        /\ requests = [geocode |-> 1, nearby |-> 0, text |-> 0, details |-> 0]
        /\ http = Some([status |-> 200, total_breweries |-> 0])

\* C19 witness: discovery has returned after a geocoding answer without
\* results.
C19_Witness ==
    /\ d_pc = "returned"
    /\ geocode_status = "ZERO_RESULTS"
    /\ requests.geocode = 1

\* C20: whatever fails (the durable store at the lookup or at the write,
\* the geocoding or the searches, any strategy's fetch or parse) no
\* acquisition ends with an exception and none is left without a next step:
\* one that ended has returned a list, in which a brewery whose strategies
\* all failed has no beers, and a failed cache write does not change what
\* is returned.
C20_NeverFails ==
    \A p \in Procs :
        /\ pc[p] # "failed"
        /\ pc[p] \in {"geocode", "search", "details", "strategy", "delay"} =>
              ENABLED Steps(p, MaxBreweries)
        /\ pc[p] = "done" =>
              /\ Len(ret[p]) = 1
              /\ calls[p].discovery > 0 =>
                    /\ Len(ret[p][1]) = Len(scrape_log[p])
                    /\ \A i \in 1..Len(scrape_log[p]) :
                          scrape_log[p][i].all_failed => ret[p][1][i].beers = << >>
                    /\ \A j \in WritesBy(p) :
                          write_log[j].data = serialize_breweries(ret[p][1])

\* C20 witness: an acquisition has returned a brewery whose strategies all
\* failed, after its cache write failed too.
C20_Witness ==
    \E p \in Procs :
        /\ pc[p] = "done"
        /\ \E i \in 1..Len(scrape_log[p]) : scrape_log[p][i].all_failed
        /\ \E j \in WritesBy(p) : ~write_log[j].ok
        /\ ret[p][1] # << >>

\* A step is a call of the cache service method op.
CallOf(op) == now' = now /\ maint'.op = op

\* C21: a cleanup_expired_cache call that commits removes from the search
\* table exactly the rows whose expires_at is before now, from the detail
\* table exactly the rows whose last_updated is more than seven days before
\* now, whatever the ttl, and leaves the other rows and the in-memory
\* dictionary as they were; one that is rolled back changes nothing.
C21_CleanupRemovesExactly ==
    [][ CallOf("cleanup_expired_cache") =>
          /\ in_memory_cache' = in_memory_cache
          /\ maint'.ok =>
                /\ db' = { r \in db : ~ (r.expires_at < now) }
                /\ detail_db' = { r \in detail_db : ~ (now - r.last_updated > 7 * 24) }
          /\ ~ maint'.ok => db' = db /\ detail_db' = detail_db ]_vars

\* C21 witness: a cleanup has removed a search row and a detail row and
\* left a search row, a detail row older than the ttl and a fast-tier entry.
C21_Witness ==
    /\ maint.op = "cleanup_expired_cache"
    /\ maint.ok
    /\ maint.logged[1].searches > 0
    /\ maint.logged[1].breweries > 0
    /\ db # {}
    /\ \E r \in detail_db : now - r.last_updated >= cache_ttl_hours
    /\ in_memory_cache # << >>

\* C22 (as stated): a cleanup_expired_cache call that commits returns the
\* number of search rows and the number of detail rows it removed.
C22_ReturnsCounts ==
    (api_response.endpoint = "cleanup_cache" /\ maint.op = "cleanup_expired_cache"
        /\ maint.ok) =>
        /\ maint.result # None
        /\ maint.result = maint.logged

\* C23 (as stated): the statistics, cleanup and clear-one-postal-code
\* endpoints answer with status 200 or 201.
C23_ManagementSucceeds ==
    api_response.endpoint \in { "get_cache_stats", "cleanup_cache", "clear_cache_for_zipcode" }
        => api_response.status \in { 200, 201 }

\* C24: a cache_brewery call that commits leaves exactly one row for the
\* place id, holding the brewery, with last_updated = now and
\* tap_list_updated = now if the brewery has beers and null if it has none,
\* and leaves the rows of other place ids alone; a get_cached_brewery call
\* whose query succeeds returns the brewery of the row of the place id if
\* now - last_updated < ttl and None otherwise.
C24_DetailEntry ==
    [][ /\ (CallOf("cache_brewery") /\ maint'.ok) =>
              LET id      == maint'.key
                  brewery == maint'.result[1]
                  rows    == { r \in detail_db' : r.id = id }
              IN  /\ Cardinality(rows) = 1
                  /\ \A r \in rows :
                        /\ r.name = brewery.name
                        /\ r.last_updated = now
                        /\ (r.tap_list # None) <=> (brewery.beers # << >>)
                        /\ r.tap_list # None => r.tap_list[1] = brewery.beers
                        /\ r.tap_list_updated =
                              IF Len(brewery.beers) >= 1 THEN << now >> ELSE << >>
                  /\ { r \in detail_db' : r.id # id } = { r \in detail_db : r.id # id }
        /\ (CallOf("get_cached_brewery") /\ maint'.ok) =>
              LET rows  == { r \in detail_db : r.id = maint'.key }
                  fresh == { r \in rows : now - r.last_updated < cache_ttl_hours }
              IN  /\ (maint'.result # None) <=> (fresh # {})
                  /\ \A r \in fresh :
                        /\ maint'.result[1].name = r.name
                        /\ maint'.result[1].website = r.website
                        /\ maint'.result[1].beers =
                              IF r.tap_list = None THEN << >> ELSE r.tap_list[1]
                  /\ detail_db' = detail_db ]_vars

\* C24 witness: a brewery with beers was written over an older row and is
\* returned by get_cached_brewery, next to a row without tap list.
C24_Witness ==
    /\ maint.op = "get_cached_brewery"
    /\ maint.result # None
    /\ maint.result[1].beers # << >>
    /\ \E r \in detail_db : r.id = maint.key /\ r.last_updated > 0
                            /\ r.tap_list_updated = << r.last_updated >>
    /\ \E r \in detail_db : r.id # maint.key /\ r.tap_list_updated = None

\* C29: in one process, whatever calls of cache_search_results,
\* get_cached_search and cleanup_expired_cache were made and whichever of
\* them met a failing durable store, every in-memory entry that has not
\* expired has a durable row of the same key with the same payload and the
\* same expires_at, and no key has two durable rows.
C29_TiersAgree ==
    /\ \A key \in DOMAIN in_memory_cache :
          now < in_memory_cache[key].expires_at =>
              \E r \in db : /\ r.id = key
                            /\ r.search_results = in_memory_cache[key].data
                            /\ r.expires_at = in_memory_cache[key].expires_at
    /\ \A r1, r2 \in db : r1.id = r2.id => r1 = r2

\* C29 witness: a cleanup has removed a search row while an unexpired
\* in-memory entry exists, whose key an earlier write had replaced.
C29_Witness ==
    /\ maint.op = "cleanup_expired_cache"
    /\ maint.ok
    /\ maint.logged[1].searches > 0
    /\ \E key \in DOMAIN in_memory_cache :
          /\ now < in_memory_cache[key].expires_at
          /\ in_memory_cache[key].expires_at > cache_ttl_hours

\* C25: a candidate whose name passes the name checks is accepted by
\* _is_valid_beer exactly when its ABV is absent or between 0.5 and 20.0,
\* bounds included, and its IBU is absent or between 0 and 150, bounds
\* included; one whose name fails them is rejected.
C25_InclusiveBounds ==
    checked # None =>
        LET beer   == checked[1].beer
            abv_ok == beer.abv = None \/ (50 <= beer.abv[1] /\ beer.abv[1] <= 2000)
            ibu_ok == beer.ibu = None \/ (0 <= beer.ibu[1] /\ beer.ibu[1] <= 150)
        IN  /\ name_checks(beer.name) => (checked[1].valid <=> (abv_ok /\ ibu_ok))
            /\ ~ name_checks(beer.name) => ~ checked[1].valid

\* C25 witness: a candidate with ABV 0.5 and IBU 150 was accepted.
C25_Witness ==
    /\ checked # None
    /\ checked[1].valid
    /\ checked[1].beer.abv = Some(50)
    /\ checked[1].beer.ibu = Some(150)

\* The indices of the candidates that are the first of their name (letters
\* only: case and surrounding whitespace set aside) among the candidates,
\* with three letters or more and not a navigation item.
FirstOfName(cands) ==
    { i \in 1..Len(cands) :
        /\ \A j \in 1..(i - 1) : cands[j].name.words # cands[i].name.words
        /\ NameLen(BeerName(cands[i].name.words, "lower")) >= 3
        /\ cands[i].name.words \notin nav_items }

\* The candidates at the indices I from index i on, in order.
RECURSIVE AtIndices(_, _, _)
AtIndices(cands, I, i) ==
    IF i > Len(cands) THEN << >>
    ELSE (IF i \in I THEN << cands[i] >> ELSE << >>) \o AtIndices(cands, I, i + 1)

\* C26: whatever stage the candidates came from, the returned list has at
\* most 20 beers, no two of them with the same name up to case and
\* surrounding whitespace, no name under three characters or among the
\* navigation items, and it is the first occurrences of the names, in the
\* order of the candidates, cut after the twentieth.
C26_ReturnedList ==
    parse_ret # None =>
        LET r     == parse_ret[1]
            first == AtIndices(parse_beers, FirstOfName(parse_beers), 1)
        IN  /\ Len(r) <= 20
            /\ \A i, j \in 1..Len(r) : i # j => r[i].name.words # r[j].name.words
            /\ \A i \in 1..Len(r) :
                  /\ NameLen(BeerName(r[i].name.words, "lower")) >= 3
                  /\ r[i].name.words \notin nav_items
            /\ Len(r) <= Len(first)
            /\ \A i \in 1..Len(r) : r[i] = first[i]
            /\ Len(r) < 20 => Len(r) = Len(first)

\* C26 witness: more than 20 candidates, some of them the same name written
\* differently, gave a list of exactly 20.
C26_Witness ==
    /\ parse_ret # None
    /\ Len(parse_ret[1]) = 20
    /\ \E i, j \in 1..Len(parse_beers) :
          /\ i < j
          /\ parse_beers[i].name.words = parse_beers[j].name.words
          /\ parse_beers[i].name.form # parse_beers[j].name.form

\* C28 (as stated): the selectors are evaluated in order up to the first
\* that itself yields a valid beer, all before it having yielded none, and
\* the text patterns are used only when nothing was found before the loop
\* and no selector yielded anything.
C28_FirstYieldingSelector ==
    parse_pc = "done" =>
        LET n == Len(selector_log)
        IN  /\ \A i \in 1..(n - 1) : selector_log[i] = 0
            /\ n < NumSelectors => selector_log[n] > 0
            /\ text_used => (before_loop = 0 /\ \A i \in 1..n : selector_log[i] = 0)

\* C27 (as stated): the pool has five signatures or more, and the signature
\* an attempt sends (strategy A, B or C) is the pool entry after the one the
\* attempt before it sent, cyclically.
C27_RotatesOnEveryAttempt ==
    /\ Len(user_agents) >= 5
    /\ (sent # None /\ sent_before # None) =>
          \E i \in 1..Len(user_agents) :
              /\ sent_before[1] = user_agents[i]
              /\ sent[1] = user_agents[(i % Len(user_agents)) + 1]

\* C30: provided every network call returns or times out, every
\* get_breweries_with_tap_lists call terminates; it scrapes at most 15
\* breweries, each exactly once and one after another in the order of
\* discovery, and for each brewery it issues at most 10 fetches (one by
\* strategy A, one by strategy B, at most 8 url variants by strategy C),
\* no strategy being invoked twice for a brewery.
C30_Terminates ==
    /\ [] ( /\ Len(discovered[Caller]) <= MaxTopBreweries
            /\ calls[Caller].scrape <= Len(discovered[Caller])
            /\ Len(scrape_log[Caller]) <= calls[Caller].scrape
            /\ calls[Caller].scrape <= Len(scrape_log[Caller]) + 1
            /\ \A j \in 1..Len(scrape_log[Caller]) :
                   scrape_log[Caller][j].name = discovered[Caller][j]
            /\ pc[Caller] = "strategy" =>
                   /\ idx[Caller] = calls[Caller].scrape
                   /\ Len(scrape_log[Caller]) = idx[Caller] - 1
            /\ pc[Caller] = "done" => Len(scrape_log[Caller]) = Len(discovered[Caller])
            /\ Cardinality(inflight[Caller]) <= 1
            /\ invoked[Caller] = Prefix(Len(invoked[Caller]))
            /\ Len(invoked[Caller]) <= Len(Strategies)
            /\ variant[Caller] <= NumUrlVariations
            /\ fetches[Caller] <= 2 + NumUrlVariations
            /\ fetches[Caller] =
                   (IF Len(invoked[Caller]) < 2 THEN Len(invoked[Caller]) ELSE 2)
                   + variant[Caller] )
    /\ (pc[Caller] # "idle") ~> (pc[Caller] = "done")
\* The call has returned 15 breweries, scraped one after another; the
\* chain of one of them failed after all 10 fetches.
C30_Witness ==
    /\ pc[Caller] = "done"
    /\ Len(discovered[Caller]) = MaxTopBreweries
    /\ calls[Caller].scrape = MaxTopBreweries
    /\ Len(scrape_log[Caller]) = MaxTopBreweries
    /\ \E j \in 1..Len(scrape_log[Caller]) : scrape_log[Caller][j].all_failed
====
